---- MODULE Spec2Model ----
(***************************************************************************)
(* A model of the boardroom_tee hub's coordination substrate:              *)
(*   - the attestation-gated agent registry (hub/services/agent_registry)  *)
(*   - the secure messaging envelope (shared/secure_messaging)             *)
(*   - the orchestration engine (hub/services/orchestration_engine) with   *)
(*     the VM transport (hub/services/vm_communication_manager) and the    *)
(*     router policy (hub/services/unified_llm_manager)                    *)
(*   - the document catalog (hub/services/document_processor).             *)
(* Time is one wall clock in whole seconds.  Python's None is the string   *)
(* "None".  Dicts are functions on the set of keys present.                *)
(***************************************************************************)
EXTENDS Integers, Sequences, FiniteSets, TLC

VARIABLES
    now,              \* datetime.utcnow(), seconds
    agents,           \* AgentRegistry.agents: agent_id -> record
    client_agents,    \* AgentRegistry.client_agents: client_id -> list of agent ids
    ret,              \* what the last handler returned to its caller
    wire,             \* the envelopes built so far, which anyone may submit
    accepted,         \* the receiver's history of (True, message) returns
    spoke_endpoints,  \* VMCommunicationManager.spoke_endpoints: the configured kinds
    active_requests,  \* OrchestrationEngine.active_requests: routing_id -> entry
    pending,          \* the handlers suspended in send_to_agent's network call
    id_reused,        \* bookkeeping: route_request has drawn an id already in the table
    documents_db,     \* DocumentProcessor.documents_db: document_id -> record
    collaboration_handlers, \* AgentCommunication.collaboration_handlers: the kinds
    handler_calls,    \* bookkeeping: the payloads handed to a collaboration handler
    broadcast,        \* the running broadcast_to_all_agents: its tasks and results
    hb_run,           \* bookkeeping: the current run of consecutive heartbeats
    communication,    \* per agent process: AgentCommunication.hub_endpoint, the quote
                      \* it sent and what register_with_hub returned
    base_agent,       \* per agent process: BaseAgent.is_running, and when it was set
    heartbeat_loop    \* per agent process: whether this period's heartbeat is sent,
                      \* and the HTTP status the hub answered the last one with

None == "None"

(***************************************************************************)
(* Bounds of the model.                                                    *)
(***************************************************************************)
MaxTime == 900
MaxIndexEntries == 3

MaxWire == 1
MaxAccepted == 2

MaxPending == 1
MaxResponses == 3

TickSteps == {450}
MsgTickSteps == {300}

AgentIds == {"agent-1", "agent-2"}
ClientIds == {"acme", "globex"}

(***************************************************************************)
(* Program constants.                                                      *)
(***************************************************************************)
HealthySeconds == 300      \* timedelta(minutes=5)
InactiveSeconds == 900     \* timedelta(minutes=15)

\* What the two agent programs register: BaseAgent(agent_id, type, capabilities).
\* agent-1 runs the finance program and agent-2 the marketing program.
ProfileOf(agent_id) ==
    IF agent_id = "agent-1"
    THEN [agent_type |-> "finance", capabilities |-> {"roi_calculation"}]
    ELSE [agent_type |-> "marketing", capabilities |-> {"campaign_performance"}]
Capabilities == UNION {ProfileOf(a).capabilities : a \in AgentIds}

Quotes == {None, "quote-ok", "quote-bad"}
PublicKeys == {None, "pem"}
\* attestation_data as submitted: complete, or with one of its two fields wrong
AttestationData ==
    {d \in Quotes \X PublicKeys : d[1] = "quote-ok" \/ d[2] = "pem"}

(***************************************************************************)
(* datetime.isoformat() and datetime.fromisoformat() on a naive datetime.  *)
(***************************************************************************)
isoformat(t) == <<"iso", t>>
fromisoformat(s) == s[2]

(***************************************************************************)
(* The attestation verifier (shared/attestation_client, not in the         *)
(* sources): (ok, {measurements, error?}) from a quote.                    *)
(***************************************************************************)
verify_attestation_quote(quote) ==
    IF quote = "quote-ok"
    THEN [ok |-> TRUE, measurements |-> "mrtd", error |-> None]
    ELSE [ok |-> FALSE, measurements |-> None, error |-> "quote rejected"]

(***************************************************************************)
(* AgentRegistry: the lookups.  An Optional or a list is a sequence.       *)
(***************************************************************************)
get_agent(agent_id, client_id) ==
    IF agent_id \in DOMAIN agents /\ agents[agent_id].client_id = client_id
    THEN <<agents[agent_id]>>
    ELSE <<>>

\* for agent_id in ids: agent = self.agents.get(agent_id); if agent: append
AgentsOf(ids) ==
    LET known == SelectSeq(ids, LAMBDA agent_id : agent_id \in DOMAIN agents)
    IN [i \in 1..Len(known) |-> agents[known[i]]]

get_all_agents(client_id) == AgentsOf(client_agents[client_id])

IsCapableVerified(agent, capability) ==
    capability \in agent.capabilities /\ agent.status = "verified"

get_agents_by_capability(capability, client_id) ==
    SelectSeq(get_all_agents(client_id),
              LAMBDA agent : IsCapableVerified(agent, capability))

_is_agent_online(agent) ==
    (now - fromisoformat(agent.last_seen)) < HealthySeconds

DirectoryEntry(agent) ==
    [agent_id |-> agent.agent_id,
     agent_type |-> agent.agent_type,
     capabilities |-> agent.capabilities,
     endpoint |-> agent.endpoint,
     status |-> IF _is_agent_online(agent) THEN "online" ELSE "offline"]

MapDirectory(recs) == [i \in 1..Len(recs) |-> DirectoryEntry(recs[i])]

get_agent_directory(client_id) ==
    MapDirectory(SelectSeq(get_all_agents(client_id),
                           LAMBDA agent : agent.status = "verified"))

(***************************************************************************)
(* AgentRegistry.register_agent.  Called through POST /agents/register,    *)
(* whose body model guarantees every registration field is present.        *)
(***************************************************************************)
\* The number of entries of the client index, over the clients cs.
RECURSIVE IndexEntries(_)
IndexEntries(cs) ==
    IF cs = {} THEN 0
    ELSE LET c == CHOOSE x \in cs : TRUE
         IN Len(client_agents[c]) + IndexEntries(cs \ {c})

AgentRecord(agent_id, client_id, profile, quote, public_key, measurements) ==
    [agent_id |-> agent_id,
     agent_type |-> profile.agent_type,
     capabilities |-> profile.capabilities,
     endpoint |-> <<"http", agent_id, "api">>,
     attestation_endpoint |-> <<"http", agent_id, "attestation">>,
     public_key |-> public_key,
     attestation_quote |-> quote,
     status |-> "verified",
     registered_at |-> isoformat(now),
     last_seen |-> isoformat(now),
     client_id |-> client_id,
     measurements |-> measurements]

RegisterReply(agent_id, client_id, status, error) ==
    [op |-> "register_agent", agent_id |-> agent_id, client_id |-> client_id,
     status |-> status, error |-> error]

\* register_agent storing the record before the verifier's verdict is looked at.
register_agent_stores_first(agent_id, client_id, profile, quote, public_key) ==
    LET v == verify_attestation_quote(quote) IN
    /\ IndexEntries(DOMAIN client_agents) < MaxIndexEntries
    /\ agents' = (agent_id :> AgentRecord(agent_id, client_id, profile,
                                          quote, public_key, v.measurements))
                 @@ agents
    /\ client_agents' = [client_agents EXCEPT ![client_id] = Append(@, agent_id)]
    /\ ret' = IF quote = None \/ public_key = None \/ ~v.ok
              THEN RegisterReply(agent_id, client_id, "rejected", v.error)
              ELSE RegisterReply(agent_id, client_id, "registered", None)

register_agent(agent_id, client_id, profile, quote, public_key) ==
    LET v == verify_attestation_quote(quote) IN
    IF quote = None \/ public_key = None
    THEN /\ ret' = RegisterReply(agent_id, client_id, "rejected",
                                 "Missing attestation data")
         /\ UNCHANGED <<agents, client_agents>>
    ELSE IF ~v.ok
    THEN /\ ret' = RegisterReply(agent_id, client_id, "rejected", v.error)
         /\ UNCHANGED <<agents, client_agents>>
    ELSE /\ IndexEntries(DOMAIN client_agents) < MaxIndexEntries
         /\ agents' = (agent_id :> AgentRecord(agent_id, client_id, profile,
                                               quote, public_key, v.measurements))
                      @@ agents
         /\ client_agents' = [client_agents EXCEPT
                                 ![client_id] = Append(@, agent_id)]
         /\ ret' = RegisterReply(agent_id, client_id, "registered", None)

(***************************************************************************)
(* AgentRegistry.update_agent_heartbeat                                    *)
(***************************************************************************)
\* update_agent_heartbeat reviving the record it refreshes.
update_agent_heartbeat_revives(agent_id, client_id) ==
    IF get_agent(agent_id, client_id) # <<>>
    THEN /\ agents' = [agents EXCEPT ![agent_id].last_seen = isoformat(now),
                                     ![agent_id].status = "verified"]
         /\ ret' = [op |-> "update_agent_heartbeat", agent_id |-> None,
                    client_id |-> None, status |-> "true", error |-> None]
         /\ UNCHANGED client_agents
    ELSE /\ ret' = [op |-> "update_agent_heartbeat", agent_id |-> None,
                    client_id |-> None, status |-> "false", error |-> None]
         /\ UNCHANGED <<agents, client_agents>>

\* update_agent_heartbeat looking the record up by agent id alone.
update_agent_heartbeat_any_client(agent_id, client_id) ==
    IF agent_id \in DOMAIN agents
    THEN /\ agents' = [agents EXCEPT ![agent_id].last_seen = isoformat(now)]
         /\ ret' = [op |-> "update_agent_heartbeat", agent_id |-> None,
                    client_id |-> None, status |-> "true", error |-> None]
         /\ UNCHANGED client_agents
    ELSE /\ ret' = [op |-> "update_agent_heartbeat", agent_id |-> None,
                    client_id |-> None, status |-> "false", error |-> None]
         /\ UNCHANGED <<agents, client_agents>>

\* update_agent_heartbeat that moves last_seen only on the first heartbeat after a
\* registration.
update_agent_heartbeat_first_only(agent_id, client_id) ==
    IF get_agent(agent_id, client_id) # <<>>
    THEN /\ agents' = IF agents[agent_id].last_seen = agents[agent_id].registered_at
                      THEN [agents EXCEPT ![agent_id].last_seen = isoformat(now)]
                      ELSE agents
         /\ ret' = [op |-> "update_agent_heartbeat", agent_id |-> None,
                    client_id |-> None, status |-> "true", error |-> None]
         /\ UNCHANGED client_agents
    ELSE /\ ret' = [op |-> "update_agent_heartbeat", agent_id |-> None,
                    client_id |-> None, status |-> "false", error |-> None]
         /\ UNCHANGED <<agents, client_agents>>

update_agent_heartbeat(agent_id, client_id) ==
    IF get_agent(agent_id, client_id) # <<>>
    THEN /\ agents' = [agents EXCEPT ![agent_id].last_seen = isoformat(now)]
         /\ ret' = [op |-> "update_agent_heartbeat", agent_id |-> None,
                    client_id |-> None, status |-> "true", error |-> None]
         /\ UNCHANGED client_agents
    ELSE /\ ret' = [op |-> "update_agent_heartbeat", agent_id |-> None,
                    client_id |-> None, status |-> "false", error |-> None]
         /\ UNCHANGED <<agents, client_agents>>

(***************************************************************************)
(* AgentRegistry.check_agent_health                                        *)
(***************************************************************************)
time_since_seen(agent) == now - fromisoformat(agent.last_seen)

Bucket(agent) ==
    IF time_since_seen(agent) < HealthySeconds THEN "healthy"
    ELSE IF time_since_seen(agent) < InactiveSeconds THEN "unhealthy"
    ELSE "inactive"

\* The agent ids of one bucket, in the order of the client's list.
HealthBucket(client_id, bucket) ==
    SelectSeq(client_agents[client_id],
              LAMBDA agent_id : /\ agent_id \in DOMAIN agents
                                /\ Bucket(agents[agent_id]) = bucket)

InSeq(x, s) == \E i \in 1..Len(s) : s[i] = x

\* check_agent_health that returns an agent seen again to verified.
check_agent_health_restores(client_id) ==
    /\ agents' = [agent_id \in DOMAIN agents |->
                    IF ~InSeq(agent_id, client_agents[client_id])
                    THEN agents[agent_id]
                    ELSE IF Bucket(agents[agent_id]) = "inactive"
                    THEN [agents[agent_id] EXCEPT !.status = "inactive"]
                    ELSE IF Bucket(agents[agent_id]) = "healthy"
                    THEN [agents[agent_id] EXCEPT !.status = "verified"]
                    ELSE agents[agent_id]]
    /\ ret' = [op |-> "check_agent_health", agent_id |-> None,
               client_id |-> None, status |-> "ok", error |-> None]
    /\ UNCHANGED client_agents

check_agent_health(client_id) ==
    /\ agents' = [agent_id \in DOMAIN agents |->
                    IF /\ InSeq(agent_id, client_agents[client_id])
                       /\ Bucket(agents[agent_id]) = "inactive"
                    THEN [agents[agent_id] EXCEPT !.status = "inactive"]
                    ELSE agents[agent_id]]
    /\ ret' = [op |-> "check_agent_health", agent_id |-> None,
               client_id |-> None, status |-> "ok", error |-> None]
    /\ UNCHANGED client_agents

(***************************************************************************)
(* AgentRegistry.remove_agent: list.remove drops the first occurrence.     *)
(***************************************************************************)
RECURSIVE RemoveFirst(_, _)
RemoveFirst(s, x) ==
    IF s = <<>> THEN <<>>
    ELSE IF Head(s) = x THEN Tail(s)
    ELSE <<Head(s)>> \o RemoveFirst(Tail(s), x)

remove_agent(agent_id, client_id) ==
    IF get_agent(agent_id, client_id) # <<>>
    THEN /\ agents' = [a \in DOMAIN agents \ {agent_id} |-> agents[a]]
         /\ client_agents' = [client_agents EXCEPT
                                 ![client_id] = RemoveFirst(@, agent_id)]
         /\ ret' = [op |-> "remove_agent", agent_id |-> None,
                    client_id |-> None, status |-> "true", error |-> None]
    ELSE /\ ret' = [op |-> "remove_agent", agent_id |-> None,
                    client_id |-> None, status |-> "false", error |-> None]
         /\ UNCHANGED <<agents, client_agents>>

(***************************************************************************)
(* The key store (shared/tee_key_manager, not in the sources): sign,       *)
(* verify (bytes, signature, sender-pem), public key PEM, fingerprint.     *)
(* An absent or empty value of an envelope field is <<>>.                  *)
(***************************************************************************)
sign_message(key, text) == <<"sig", key, text>>
get_public_key_pem(key) == <<"pem", key>>
get_key_fingerprint(key) == <<"sha256", key>>
verify_signature(text, signature, public_key_pem) ==
    /\ signature # <<>>
    /\ public_key_pem = get_public_key_pem(signature[2])
    /\ signature[3] = text

(***************************************************************************)
(* The processes that build envelopes: each has an AGENT_ID in its         *)
(* environment and the key pair of its key store.  OwnKey is the key pair  *)
(* of the process that legitimately runs under an id; the third process    *)
(* runs with AGENT_ID=agent-1 and a key pair of its own.                   *)
(***************************************************************************)
OwnKey(sender_id) == <<"key-of", sender_id>>
Procs ==
    { [AGENT_ID |-> "hub", key |-> OwnKey("hub")],
      [AGENT_ID |-> "agent-1", key |-> OwnKey("agent-1")],
      [AGENT_ID |-> "agent-1", key |-> OwnKey("agent-x")] }
Nonces == {"nonce-a", "nonce-b"}
Payloads == {"payload-1"}
RecipientKeys == {<<>>, get_public_key_pem(OwnKey("hub"))}
\* a sender stamps with its own clock: in step with the receiver's, or 300 s
\* ahead of it
ClockSkews == {0, 300}

(***************************************************************************)
(* json.dumps(message, sort_keys=True) and json.loads: the serialization   *)
(* lists the (key, value) pairs in key order.                              *)
(***************************************************************************)
json_dumps(message) ==
    << <<"message_type", message.message_type>>,
       <<"nonce", message.nonce>>,
       <<"payload", message.payload>>,
       <<"recipient_id", message.recipient_id>>,
       <<"sender_id", message.sender_id>>,
       <<"timestamp", message.timestamp>> >>

JsonValue(text, key) == text[CHOOSE i \in 1..Len(text) : text[i][1] = key][2]

\* json.loads that loses the payload of the message.
json_loads_without_payload(text) ==
    [sender_id |-> JsonValue(text, "sender_id"),
     recipient_id |-> JsonValue(text, "recipient_id"),
     message_type |-> JsonValue(text, "message_type"),
     timestamp |-> JsonValue(text, "timestamp"),
     nonce |-> JsonValue(text, "nonce"),
     payload |-> "None"]

json_loads(text) ==
    [sender_id |-> JsonValue(text, "sender_id"),
     recipient_id |-> JsonValue(text, "recipient_id"),
     message_type |-> JsonValue(text, "message_type"),
     timestamp |-> JsonValue(text, "timestamp"),
     nonce |-> JsonValue(text, "nonce"),
     payload |-> JsonValue(text, "payload")]

(***************************************************************************)
(* SecureMessaging._encrypt_payload / _decrypt_payload: AES-256-GCM under  *)
(* a fresh key and IV that travel with the ciphertext.                     *)
(***************************************************************************)
_encrypt_payload(plaintext, key, iv) ==
    [key |-> key, iv |-> iv,
     ciphertext |-> <<"aes-gcm", key, iv, plaintext>>,
     tag |-> <<"gcm-tag", key, iv, plaintext>>]

\* <<>> is the None of a failed decryption.
_decrypt_payload(encrypted_payload) ==
    LET c == encrypted_payload.ciphertext IN
    IF /\ c[2] = encrypted_payload.key
       /\ c[3] = encrypted_payload.iv
       /\ encrypted_payload.tag = <<"gcm-tag", c[2], c[3], c[4]>>
    THEN c[4]
    ELSE <<>>

(***************************************************************************)
(* SecureMessaging._get_timestamp / _verify_timestamp                      *)
(***************************************************************************)
MaxAgeSeconds == 300

_get_timestamp(clock) == <<"iso", clock, "Z">>

\* _verify_timestamp without the upper limit on the age.
_verify_timestamp_any_age(timestamp) ==
    LET msg_time == timestamp[2]
        age == now - msg_time
    IN 0 <= age

_verify_timestamp(timestamp) ==
    LET msg_time == timestamp[2]
        age == now - msg_time
    IN 0 <= age /\ age <= MaxAgeSeconds

(***************************************************************************)
(* SecureMessaging.create_secure_message                                   *)
(***************************************************************************)
BuildMessage(proc, recipient_id, message_type, payload, nonce, clock) ==
    [sender_id |-> proc.AGENT_ID,
     recipient_id |-> recipient_id,
     message_type |-> message_type,
     timestamp |-> _get_timestamp(clock),
     nonce |-> nonce,
     payload |-> payload]

BuildEnvelope(proc, message, recipient_public_key, aes_key, iv) ==
    LET message_json == json_dumps(message)
        signature == sign_message(proc.key, message_json)
    IN IF recipient_public_key # <<>>
       THEN [encrypted |-> TRUE,
             encrypted_payload |-> _encrypt_payload(message_json, aes_key, iv),
             message |-> <<>>,
             signature |-> signature,
             sender_public_key |-> get_public_key_pem(proc.key),
             sender_fingerprint |-> get_key_fingerprint(proc.key)]
       ELSE [encrypted |-> FALSE,
             encrypted_payload |-> <<>>,
             message |-> <<message>>,
             signature |-> signature,
             sender_public_key |-> get_public_key_pem(proc.key),
             sender_fingerprint |-> get_key_fingerprint(proc.key)]

create_secure_message(proc, recipient_id, message_type, payload, recipient_public_key, nonce, skew) ==
    /\ Cardinality(wire) < MaxWire
    /\ wire' = wire \cup
          {BuildEnvelope(proc,
                         BuildMessage(proc, recipient_id, message_type, payload,
                                      nonce, now + skew),
                         recipient_public_key, "aes-key", "iv")}
    /\ UNCHANGED <<accepted, ret>>

(***************************************************************************)
(* SecureMessaging.verify_secure_message.  The outcome is (ok, message or  *)
(* error); an accepted message is appended to the receiver's history.      *)
(***************************************************************************)
\* verify_secure_message without the signature check of line 105.
VerifyOutcome_unsigned(secure_message) ==
    LET signature == secure_message.signature
        sender_public_key == secure_message.sender_public_key
        decrypted_json == _decrypt_payload(secure_message.encrypted_payload)
        message == IF secure_message.encrypted
                   THEN json_loads(decrypted_json)
                   ELSE secure_message.message[1]
        message_json == IF secure_message.encrypted
                        THEN decrypted_json
                        ELSE json_dumps(message)
        Fail(error) == [ok |-> FALSE, message |-> <<>>, error |-> error]
    IN IF signature = <<>> \/ sender_public_key = <<>>
       THEN Fail("Missing signature or public key")
       ELSE IF secure_message.encrypted /\ decrypted_json = <<>>
       THEN Fail("Failed to decrypt message")
       ELSE IF ~secure_message.encrypted /\ secure_message.message = <<>>
       THEN Fail("Missing message content")
       ELSE IF ~_verify_timestamp(message.timestamp)
       THEN Fail("Message timestamp too old")
       ELSE IF message.nonce = ""
       THEN Fail("Missing message nonce")
       ELSE [ok |-> TRUE, message |-> <<message>>, error |-> None]

VerifyOutcome(secure_message) ==
    LET signature == secure_message.signature
        sender_public_key == secure_message.sender_public_key
        decrypted_json == _decrypt_payload(secure_message.encrypted_payload)
        message == IF secure_message.encrypted
                   THEN json_loads(decrypted_json)
                   ELSE secure_message.message[1]
        message_json == IF secure_message.encrypted
                        THEN decrypted_json
                        ELSE json_dumps(message)
        Fail(error) == [ok |-> FALSE, message |-> <<>>, error |-> error]
    IN IF signature = <<>> \/ sender_public_key = <<>>
       THEN Fail("Missing signature or public key")
       ELSE IF secure_message.encrypted /\ decrypted_json = <<>>
       THEN Fail("Failed to decrypt message")
       ELSE IF ~secure_message.encrypted /\ secure_message.message = <<>>
       THEN Fail("Missing message content")
       ELSE IF ~verify_signature(message_json, signature, sender_public_key)
       THEN Fail("Invalid signature")
       ELSE IF ~_verify_timestamp(message.timestamp)
       THEN Fail("Message timestamp too old")
       ELSE IF message.nonce = ""
       THEN Fail("Missing message nonce")
       ELSE [ok |-> TRUE, message |-> <<message>>, error |-> None]

verify_secure_message(secure_message) ==
    LET out == VerifyOutcome(secure_message) IN
    /\ Len(accepted) < MaxAccepted
    /\ ret' = [op |-> "verify_secure_message", agent_id |-> None,
               client_id |-> None,
               status |-> IF out.ok THEN "true" ELSE "false",
               error |-> out.error]
    /\ accepted' = IF out.ok
                   THEN Append(accepted, [envelope |-> secure_message,
                                          message |-> out.message[1],
                                          at |-> now])
                   ELSE accepted
    /\ UNCHANGED wire

\* A built message with its payload, timestamp, nonce or sender id changed.
TamperMessage(message) ==
    { [message EXCEPT !.payload = "payload-x"],
      [message EXCEPT !.timestamp = _get_timestamp(@[2] + 1)],
      [message EXCEPT !.nonce = "nonce-x"],
      [message EXCEPT !.sender_id = "agent-2"] }

\* A built envelope with its content changed and its signature kept: the plaintext
\* message replaced, or the ciphertext replaced by an encryption of the changed
\* serialization under the key and IV that travel in the blob.
Tampered(e) ==
    LET original == IF e.encrypted
                    THEN json_loads(_decrypt_payload(e.encrypted_payload))
                    ELSE e.message[1]
    IN IF e.encrypted
       THEN {[e EXCEPT !.encrypted_payload =
                          _encrypt_payload(json_dumps(m), @.key, @.iv)] :
                m \in TamperMessage(original)}
       ELSE {[e EXCEPT !.message = <<m>>] : m \in TamperMessage(original)}

\* What may reach a receiver: a built envelope, as built, without its signature,
\* or tampered with.
Submittable ==
    wire \cup {[e EXCEPT !.signature = <<>>] : e \in wire}
         \cup UNION {Tampered(e) : e \in wire}

(***************************************************************************)
(* UnifiedLLMManager._mock_route_to_agent.  A query is the set of keywords *)
(* it contains; estimated_time and confidence are the two random draws.    *)
(***************************************************************************)
FinanceWords == {"roi", "budget", "financial", "revenue", "cost"}
MarketingWords == {"campaign", "marketing", "customer", "brand"}
SalesWords == {"sales", "pipeline", "leads", "deals"}

Queries == {{"roi"}}
EstimatedTimes == {3}
RouteConfidences == {90}

KeywordChoice(query, available_agents) ==
    IF query \cap FinanceWords # {}
    THEN [best_agent |-> "finance", priority |-> "high",
          reasoning |-> "Query contains financial terms"]
    ELSE IF query \cap MarketingWords # {}
    THEN [best_agent |-> "marketing", priority |-> "medium",
          reasoning |-> "Query relates to marketing"]
    ELSE IF query \cap SalesWords # {}
    THEN [best_agent |-> "sales", priority |-> "medium",
          reasoning |-> "Query involves sales"]
    ELSE [best_agent |-> IF available_agents # <<>>
                         THEN available_agents[1].agent_type ELSE "finance",
          priority |-> "low",
          reasoning |-> "General business query"]

HasType(available_agents, agent_type) ==
    \E i \in 1..Len(available_agents) :
        available_agents[i].agent_type = agent_type

_mock_route_to_agent(query, available_agents, estimated_time, confidence) ==
    LET k == KeywordChoice(query, available_agents)
        substitute == /\ ~HasType(available_agents, k.best_agent)
                      /\ available_agents # <<>>
    IN [best_agent |-> IF substitute THEN available_agents[1].agent_type
                       ELSE k.best_agent,
        reasoning |-> IF substitute THEN "Preferred agent not available"
                      ELSE k.reasoning,
        priority |-> k.priority,
        estimated_time |-> estimated_time,
        confidence |-> confidence]

(***************************************************************************)
(* OrchestrationEngine.route_request.  It runs without suspending up to    *)
(* the network call of send_to_agent; the suspended handler is a frame of  *)
(* its locals in pending.  An entry's hops counts the escalations that led *)
(* to it (0 for a client's own request, 1 after one escalation, 2 after    *)
(* two or more): it is bookkeeping of the model, the code keeps no such    *)
(* field.  uuid4().hex[:8] is any identifier, one in the table included;   *)
(* id_reused records that such a draw has happened.                        *)
(***************************************************************************)
RoutingIds == {"route_1", "route_2"}
RequestingAgents == {None, "agent-1"}
DataRequirements == <<"financial_data">>

AvailableAgents(request_data, client_id) ==
    SelectSeq(get_all_agents(client_id),
              LAMBDA agent : /\ agent.agent_id # request_data.requesting_agent
                             /\ agent.status = "verified")

TargetAgent(available_agents, routing_decision) ==
    IF HasType(available_agents, routing_decision.best_agent)
    THEN available_agents[CHOOSE i \in 1..Len(available_agents) :
            /\ available_agents[i].agent_type = routing_decision.best_agent
            /\ \A j \in 1..(i - 1) :
                  available_agents[j].agent_type # routing_decision.best_agent]
    ELSE available_agents[1]

_prepare_data_package(request_data, client_id) ==
    [encrypted |-> FALSE,
     data |-> [client_id |-> client_id,
               data_types |-> request_data.data_requirements,
               financial_data |-> InSeq("financial_data",
                                        request_data.data_requirements),
               marketing_data |-> InSeq("marketing_data",
                                        request_data.data_requirements)],
     prepared_at |-> isoformat(now)]

ActiveEntry(routing_id, request_data, target_agent, client_id, hops) ==
    [routing_id |-> routing_id,
     request_data |-> request_data,
     target_agent |-> [agent_id |-> target_agent.agent_id,
                       agent_type |-> target_agent.agent_type],
     client_id |-> client_id,
     started_at |-> isoformat(now),
     responses |-> <<>>,
     hops |-> hops]

\* The dicts the engine returns, in one shape: status is "routed" for the dict of
\* a routing (lines 91-100, which has no status key), "error" for a dict with an
\* error key only, "completed" as in the code.  collaboration_result is which of
\* send_to_agent's returns came back.
RouteResult(op, routing_id, target_agent, routing_decision, collaboration_result) ==
    [op |-> op, status |-> "routed", error |-> None,
     routing_id |-> routing_id,
     target_agent |-> target_agent.agent_id,
     agent_type |-> target_agent.agent_type,
     estimated_time_minutes |-> routing_decision.estimated_time,
     collaboration_result |-> collaboration_result]

ErrorResult(op, error) == [op |-> op, status |-> "error", error |-> error]

\* route_request on the table `table`, called by `op` (the HTTP route handler, or
\* process_collaboration_response when it escalates on a response from `trigger`).
route_request(table, request_data, client_id, routing_id, estimated_time, confidence, op, trigger, hops) ==
    LET available_agents == AvailableAgents(request_data, client_id)
        routing_decision == _mock_route_to_agent(request_data.query,
                                available_agents, estimated_time, confidence)
        target_agent == TargetAgent(available_agents, routing_decision)
    IN IF available_agents = <<>>
       THEN /\ active_requests' = table
            /\ ret' = ErrorResult(op, "No verified agents available for collaboration")
            /\ UNCHANGED <<pending, id_reused>>
       ELSE /\ id_reused' = (id_reused \/ routing_id \in DOMAIN table)
            /\ active_requests' =
                  (routing_id :> ActiveEntry(routing_id, request_data,
                                             target_agent, client_id, hops))
                  @@ table
            /\ IF target_agent.agent_type \notin spoke_endpoints
               THEN \* send_to_agent returns at once, without a network call
                    /\ ret' = RouteResult(op, routing_id, target_agent,
                                          routing_decision, "not_configured")
                    /\ UNCHANGED pending
               ELSE /\ Cardinality(pending) < MaxPending
                    /\ pending' = pending \cup
                          {[op |-> op,
                            routing_id |-> routing_id,
                            request_data |-> request_data,
                            data_package |-> _prepare_data_package(request_data,
                                                                   client_id),
                            client_id |-> client_id,
                            target_agent |-> target_agent,
                            routing_decision |-> routing_decision,
                            trigger |-> trigger,
                            hops |-> hops]}
                    /\ UNCHANGED ret

(***************************************************************************)
(* VMCommunicationManager.send_to_agent: the network call of a suspended   *)
(* handler ends, and route_request returns to its caller.                  *)
(***************************************************************************)
SendOutcomes == {"ok", "http_status", "timeout", "unreachable"}

\* load_spoke_endpoints_from_env with FINANCE_ENDPOINT set, outside development mode
ConfiguredEndpoints == {"finance"}

send_to_agent_returns(frame, outcome) ==
    /\ pending' = pending \ {frame}
    /\ ret' = RouteResult(frame.op, frame.routing_id, frame.target_agent,
                          frame.routing_decision, outcome)
    /\ UNCHANGED <<active_requests, id_reused>>

(***************************************************************************)
(* OrchestrationEngine.process_collaboration_response.  A result is a dict *)
(* with a confidence_score in hundredths, or a JSON value that is no       *)
(* object (null), on which result.get raises inside the handler's try.     *)
(***************************************************************************)
ConfidenceThreshold == 70
Results ==
    { [is_dict |-> TRUE, confidence_score |-> 60],
      [is_dict |-> TRUE, confidence_score |-> 85],
      [is_dict |-> FALSE, confidence_score |-> 0] }

\* The body of POST /orchestration/response/{routing_id} read as an envelope:
\* secure_message.get(...) of a key the body does not have is None.
AsEnvelope(response_data) ==
    [f \in {"encrypted", "encrypted_payload", "message", "signature",
            "sender_public_key", "sender_fingerprint"} |->
        IF f \in DOMAIN response_data THEN response_data[f]
        ELSE IF f = "encrypted" THEN FALSE ELSE <<>>]

\* arrived_verified is bookkeeping of the model: whether the body the response
\* came in passes verify_secure_message.  The code keeps no such field.
ResponseEntry(response_data) ==
    [agent_id |-> response_data.agent_id,
     agent_type |-> response_data.agent_type,
     result |-> response_data.result,
     received_at |-> isoformat(now),
     arrived_verified |-> VerifyOutcome(AsEnvelope(response_data)).ok]

\* Called once result is known to be a dict.
_needs_additional_collaboration(active_request, response_data) ==
    IF Len(active_request.responses) >= 2 THEN FALSE
    ELSE response_data.result.confidence_score < ConfidenceThreshold

_determine_next_agent(active_request) ==
    SelectSeq(get_all_agents(active_request.client_id),
              LAMBDA agent :
                  ~\E i \in 1..Len(active_request.responses) :
                      active_request.responses[i].agent_id = agent.agent_id)

_mock_synthesize_results(results) ==
    [executive_summary |-> "Multi-agent analysis completed.",
     count |-> Len(results)]

\* process_collaboration_response that clears the table on an unknown routing id.
process_collaboration_response_clears_table(routing_id, response_data, new_routing_id, estimated_time, confidence) ==
    IF routing_id \notin DOMAIN active_requests
    THEN /\ ret' = ErrorResult("process_collaboration_response", "Unknown routing ID")
         /\ active_requests' = <<>>
         /\ UNCHANGED <<pending, id_reused>>
    ELSE
    LET active_request ==
            [active_requests[routing_id] EXCEPT
                !.responses = Append(@, ResponseEntry(response_data))]
        table == [active_requests EXCEPT ![routing_id] = active_request]
    IN /\ Len(active_requests[routing_id].responses) < MaxResponses
       /\ IF ~response_data.result.is_dict
          THEN \* AttributeError in _needs_additional_collaboration, caught
               /\ active_requests' = table
               /\ ret' = ErrorResult("process_collaboration_response",
                                     "'NoneType' object has no attribute 'get'")
               /\ UNCHANGED <<pending, id_reused>>
          ELSE IF /\ _needs_additional_collaboration(active_request, response_data)
                  /\ _determine_next_agent(active_request) # <<>>
          THEN /\ route_request(table, active_request.request_data,
                                active_request.client_id, new_routing_id,
                                estimated_time, confidence,
                                "process_collaboration_response",
                                response_data.agent_id,
                                IF active_request.hops = 0 THEN 1 ELSE 2)
          ELSE /\ active_requests' =
                     [r \in DOMAIN table \ {routing_id} |-> table[r]]
               /\ ret' = [op |-> "process_collaboration_response",
                          status |-> "completed", error |-> None,
                          routing_id |-> routing_id,
                          synthesis |-> _mock_synthesize_results(
                                            active_request.responses),
                          responses |-> active_request.responses]
               /\ UNCHANGED <<pending, id_reused>>

process_collaboration_response(routing_id, response_data, new_routing_id, estimated_time, confidence) ==
    IF routing_id \notin DOMAIN active_requests
    THEN /\ ret' = ErrorResult("process_collaboration_response", "Unknown routing ID")
         /\ UNCHANGED <<active_requests, pending, id_reused>>
    ELSE
    LET active_request ==
            [active_requests[routing_id] EXCEPT
                !.responses = Append(@, ResponseEntry(response_data))]
        table == [active_requests EXCEPT ![routing_id] = active_request]
    IN /\ Len(active_requests[routing_id].responses) < MaxResponses
       /\ IF ~response_data.result.is_dict
          THEN \* AttributeError in _needs_additional_collaboration, caught
               /\ active_requests' = table
               /\ ret' = ErrorResult("process_collaboration_response",
                                     "'NoneType' object has no attribute 'get'")
               /\ UNCHANGED <<pending, id_reused>>
          ELSE IF /\ _needs_additional_collaboration(active_request, response_data)
                  /\ _determine_next_agent(active_request) # <<>>
          THEN /\ route_request(table, active_request.request_data,
                                active_request.client_id, new_routing_id,
                                estimated_time, confidence,
                                "process_collaboration_response",
                                response_data.agent_id,
                                IF active_request.hops = 0 THEN 1 ELSE 2)
          ELSE /\ active_requests' =
                     [r \in DOMAIN table \ {routing_id} |-> table[r]]
               /\ ret' = [op |-> "process_collaboration_response",
                          status |-> "completed", error |-> None,
                          routing_id |-> routing_id,
                          synthesis |-> _mock_synthesize_results(
                                            active_request.responses),
                          responses |-> active_request.responses]
               /\ UNCHANGED <<pending, id_reused>>

\* POST /orchestration/route: the HTTP status the route answers with for a
\* result of route_request (400 when the dict has a top-level "error" key).
route_collaboration_request(result) ==
    IF result.status = "error" THEN 400 ELSE 200

\* OrchestrationEngine.get_active_requests
get_active_requests(client_id) ==
    {[routing_id |-> r,
      target_agent |-> active_requests[r].target_agent.agent_type,
      started_at |-> active_requests[r].started_at,
      status |-> "active"] :
        r \in {x \in DOMAIN active_requests :
                  active_requests[x].client_id = client_id}}

(***************************************************************************)
(* The document catalog (hub/services/document_processor) and its routes   *)
(* (hub/api/routes).  A file is its filename and the words of its text;    *)
(* the empty set is a file with no text.  A list of documents is carried   *)
(* as the set of its elements.  uuid4 draws the ids, so a drawn id may be  *)
(* one the catalog already holds.                                          *)
(***************************************************************************)
DocumentIds == {"doc_1", "doc_2"}
UploadIds == {"upload_1"}
\* The files that are uploaded: (filename, content).
Files ==
    {<<"q4.pdf", {"campaign", "Q4"}>>, <<"notes.txt", {"budget"}>>, <<"empty.txt", {}>>}
DocTickSteps == {900}
CategorizationConfidences == {90}
\* The statement of process_upload that raises, if one does.
Faults == {"none", "upload_write", "extract", "categorize", "processed_write"}
ClientHeaders == ClientIds \cup {None}
\* A date filter the request does not carry is <<>>.
DateFilters == {<<>>, isoformat(450)}

\* str.lower() on a word of a text.
lower(word) == IF word = "Q4" THEN "q4" ELSE word
\* filename.lower().split('.')[-1]
file_ext(filename) == IF filename = "q4.pdf" THEN "pdf" ELSE "txt"
\* s in filename.lower()
in_filename(s, filename) == filename = "q4.pdf" /\ s = "pdf"

_detect_file_type(filename) ==
    LET ext == file_ext(filename)
    IN  CASE ext = "pdf" -> "pdf"
          [] ext \in {"docx", "doc"} -> "word"
          [] ext \in {"xlsx", "xls"} -> "excel"
          [] ext = "csv" -> "csv"
          [] ext = "txt" -> "text"
          [] ext \in {"eml", "msg"} -> "email"
          [] OTHER -> "other"

\* The text read from the stored upload; an extractor that raises yields "".
_extract_text_content(file_content, filename, fault) ==
    IF fault = "extract" THEN {} ELSE file_content

_mock_categorize_document(text_content, filename, confidence_score) ==
    LET text_lower == {lower(w) : w \in text_content}
        department ==
            IF text_lower \cap {"revenue", "expense", "budget", "financial", "roi"} # {}
            THEN "Finance"
            ELSE IF text_lower \cap {"campaign", "marketing", "customer", "brand"} # {}
            THEN "Marketing"
            ELSE IF text_lower \cap {"sales", "pipeline", "leads", "quota"} # {}
            THEN "Sales"
            ELSE "Operations"
        doc_type ==
            IF in_filename("xlsx", filename) \/ in_filename("xls", filename)
            THEN "Data/Spreadsheet"
            ELSE IF in_filename("pdf", filename)
            THEN "Report"
            ELSE IF in_filename("docx", filename) \/ in_filename("doc", filename)
            THEN "Document"
            ELSE IF in_filename("eml", filename) \/ in_filename("msg", filename)
            THEN "Email"
            ELSE "Other"
        found == SelectSeq(<<"budget", "revenue", "campaign", "Q4", "analysis",
                             "report", "forecast">>,
                           LAMBDA term : term \in text_lower)
        key_terms == IF found = <<>> THEN <<"business", "data", "analysis">> ELSE found
        quarters == SelectSeq(<<"Q1", "Q2", "Q3", "Q4">>,
                              LAMBDA quarter : quarter \in text_content)
        time_period == IF quarters = <<>> THEN None ELSE quarters[1] \o " 2024"
    IN  [department |-> department,
         document_type |-> doc_type,
         key_terms |-> SubSeq(key_terms, 1, IF Len(key_terms) < 5 THEN Len(key_terms) ELSE 5),
         time_period |-> time_period,
         summary |-> <<"Business", doc_type, "containing", department, "data">>,
         confidence_score |-> confidence_score]

categorize_document(text_content, filename, confidence_score) ==
    _mock_categorize_document(text_content, filename, confidence_score)

\* The except branch of process_upload: the reason is returned, nothing is stored.
process_upload_failed(client_id, upload_id, error) ==
    /\ ret' = [op |-> "process_upload", client_id |-> client_id,
               status |-> "failed", error |-> error, upload_id |-> upload_id,
               processing_time |-> isoformat(now)]
    /\ UNCHANGED documents_db

\* An intake that stores its record before the text is categorized.
process_upload_stores_first(file_content, filename, metadata, client_id, upload_id, document_id, confidence_score, fault) ==
    LET text_content == _extract_text_content(file_content, filename, fault)
        document == [document_id |-> document_id,
                     upload_id |-> upload_id,
                     filename |-> filename,
                     file_type |-> _detect_file_type(filename),
                     file_size |-> Cardinality(file_content),
                     status |-> "completed",
                     upload_date |-> isoformat(now),
                     processing_date |-> isoformat(now),
                     metadata |-> metadata,
                     categorization |-> <<>>,
                     content_hash |-> <<"sha256", file_content>>,
                     storage_path |-> <<"processed", document_id>>,
                     client_id |-> client_id]
    IN  IF fault = "upload_write"
        THEN process_upload_failed(client_id, upload_id, "upload write failed")
        ELSE IF text_content = {}
        THEN process_upload_failed(client_id, upload_id,
                                   "Failed to extract text content from document")
        ELSE IF fault \in {"categorize", "processed_write"}
        THEN /\ documents_db' = (document_id :> document) @@ documents_db
             /\ ret' = [op |-> "process_upload", client_id |-> client_id,
                        status |-> "failed", error |-> "categorization failed",
                        upload_id |-> upload_id,
                        processing_time |-> isoformat(now)]
        ELSE /\ documents_db' =
                   (document_id :> [document EXCEPT !.categorization =
                        categorize_document(text_content, filename, confidence_score)])
                   @@ documents_db
             /\ ret' = [op |-> "process_upload", client_id |-> client_id,
                        status |-> "completed", error |-> None,
                        upload_id |-> upload_id, document_id |-> document_id,
                        categorization |->
                            categorize_document(text_content, filename, confidence_score),
                        processing_time |-> isoformat(now)]

process_upload(file_content, filename, metadata, client_id, upload_id, document_id, confidence_score, fault) ==
    LET text_content == _extract_text_content(file_content, filename, fault)
        categorization == categorize_document(text_content, filename, confidence_score)
        document == [document_id |-> document_id,
                     upload_id |-> upload_id,
                     filename |-> filename,
                     file_type |-> _detect_file_type(filename),
                     file_size |-> Cardinality(file_content),
                     status |-> "completed",
                     upload_date |-> isoformat(now),
                     processing_date |-> isoformat(now),
                     metadata |-> metadata,
                     categorization |-> categorization,
                     content_hash |-> <<"sha256", file_content>>,
                     storage_path |-> <<"processed", document_id>>,
                     client_id |-> client_id]
    IN  IF fault = "upload_write"
        THEN process_upload_failed(client_id, upload_id, "upload write failed")
        ELSE IF text_content = {}
        THEN process_upload_failed(client_id, upload_id,
                                   "Failed to extract text content from document")
        ELSE IF fault = "categorize"
        THEN process_upload_failed(client_id, upload_id, "categorization failed")
        ELSE IF fault = "processed_write"
        THEN process_upload_failed(client_id, upload_id, "processed write failed")
        ELSE /\ documents_db' = (document_id :> document) @@ documents_db
             /\ ret' = [op |-> "process_upload", client_id |-> client_id,
                        status |-> "completed", error |-> None,
                        upload_id |-> upload_id, document_id |-> document_id,
                        categorization |-> categorization,
                        processing_time |-> isoformat(now)]

\* DocumentProcessor.get_document: documents_db.get(document_id), <<>> for None.
get_document(document_id) ==
    IF document_id \in DOMAIN documents_db THEN <<documents_db[document_id]>> ELSE <<>>

\* DocumentProcessor.search_documents; a filter that is None or <<>> is absent.
search_documents(client_id, filters) ==
    {doc \in {documents_db[d] : d \in DOMAIN documents_db} :
        /\ doc.client_id = client_id
        /\ filters.department # None
              => doc.categorization.department = filters.department
        /\ filters.document_type # None
              => doc.categorization.document_type = filters.document_type
        /\ filters.date_from # <<>>
              => ~(fromisoformat(doc.upload_date) < fromisoformat(filters.date_from))
        /\ filters.date_to # <<>>
              => ~(fromisoformat(doc.upload_date) > fromisoformat(filters.date_to))}

\* get_client_id: a request without the X-Client-ID header never reaches its route.
get_client_id_rejects(op, x_client_id) ==
    /\ x_client_id = None
    /\ ret' = [op |-> op, client_id |-> None, status |-> None, error |-> None,
               status_code |-> 400, detail |-> "X-Client-ID header required"]
    /\ UNCHANGED documents_db

\* The lookup route without its ownership test.
routes_get_document_any_client(document_id, x_client_id) ==
    \/ get_client_id_rejects("get_document", x_client_id)
    \/ /\ x_client_id # None
       /\ LET document == get_document(document_id)
              answer == [op |-> "get_document", client_id |-> x_client_id,
                         status |-> None, error |-> None,
                         document_id |-> document_id]
          IN  ret' = IF document = <<>>
                     THEN answer @@ [status_code |-> 404,
                                     detail |-> "Document not found",
                                     document |-> <<>>]
                     ELSE answer @@ [status_code |-> 200, detail |-> None,
                                     document |-> document]
       /\ UNCHANGED documents_db

\* GET /documents/{document_id}
routes_get_document(document_id, x_client_id) ==
    \/ get_client_id_rejects("get_document", x_client_id)
    \/ /\ x_client_id # None
       /\ LET client_id == x_client_id
              document == get_document(document_id)
              answer == [op |-> "get_document", client_id |-> client_id,
                         status |-> None, error |-> None,
                         document_id |-> document_id]
          IN  ret' = IF document = <<>>
                     THEN answer @@ [status_code |-> 404,
                                     detail |-> "Document not found",
                                     document |-> <<>>]
                     ELSE IF document[1].client_id # client_id
                     THEN answer @@ [status_code |-> 403,
                                     detail |-> "Access denied",
                                     document |-> <<>>]
                     ELSE answer @@ [status_code |-> 200, detail |-> None,
                                     document |-> document]
       /\ UNCHANGED documents_db

\* GET /documents
routes_search_documents(department, document_type, date_from, date_to, x_client_id) ==
    \/ get_client_id_rejects("search_documents", x_client_id)
    \/ /\ x_client_id # None
       /\ LET client_id == x_client_id
              filters == [department |-> department,
                          document_type |-> document_type,
                          date_from |-> date_from, date_to |-> date_to]
          IN  ret' = [op |-> "search_documents", client_id |-> client_id,
                      status |-> None, error |-> None, status_code |-> 200,
                      documents |-> search_documents(client_id, filters)]
       /\ UNCHANGED documents_db

(***************************************************************************)
(* AgentCommunication (shared/agent_communication) in the agent process    *)
(* that receives collaboration requests; its handlers are those that       *)
(* BaseAgent.register_handlers registers.                                  *)
(***************************************************************************)
Receiver == [AGENT_ID |-> "agent-2", key |-> OwnKey("agent-2")]
MessageTypes == {"collaboration_request", "status_query"}
RegisteredTypes == {"collaboration_request"}
\* What the handler does with a payload: it returns a result or it raises.
HandlerOutcomes == {"returns", "raises"}
\* secrets.token_hex(16) of the response
ResponseNonces == {"nonce-b"}

register_collaboration_handler(message_type) ==
    /\ collaboration_handlers' = collaboration_handlers \cup {message_type}
    /\ UNCHANGED <<handler_calls, ret>>

_create_error_response(error_message, nonce) ==
    BuildEnvelope(Receiver,
                  BuildMessage(Receiver, "requester", "error",
                               [error |-> error_message], nonce, now),
                  <<>>, "aes-key", "iv")

\* BaseAgent.handle_collaboration_request with the metadata that
\* handle_collaboration_request adds to its result.
HandlerResult(payload, sender_id) ==
    [status |-> "completed", result |-> <<"processed", payload>>,
     agent_id |-> Receiver.AGENT_ID, agent_type |-> ProfileOf(Receiver.AGENT_ID).agent_type,
     processed_at |-> isoformat(now), processing_time_ms |-> 0,
     requester_id |-> sender_id]

create_collaboration_response(request_id, result, status, nonce) ==
    BuildEnvelope(Receiver,
                  BuildMessage(Receiver, result.requester_id, "collaboration_response",
                               [request_id |-> request_id, status |-> status,
                                result |-> result,
                                processing_time_ms |-> result.processing_time_ms,
                                confidence_score |-> 0],
                               nonce, now),
                  <<>>, "aes-key", "iv")

HandledReply(response) ==
    [op |-> "handle_collaboration_request", agent_id |-> Receiver.AGENT_ID,
     client_id |-> None, status |-> "returned", error |-> None,
     response |-> response]

\* handle_collaboration_request that hands the message to its handler whether or
\* not the envelope verifies.
handle_collaboration_request_unverified(secure_message, nonce, outcome) ==
    LET message == IF secure_message.encrypted
                   THEN json_loads(_decrypt_payload(secure_message.encrypted_payload))
                   ELSE secure_message.message[1]
        message_type == message.message_type
    IN  /\ Len(handler_calls) < MaxAccepted
        /\ IF message_type \notin collaboration_handlers
           THEN /\ ret' = HandledReply(_create_error_response(
                              "No handler for message type: " \o message_type, nonce))
                /\ UNCHANGED handler_calls
           ELSE /\ handler_calls' = Append(handler_calls, message.payload)
                /\ ret' = HandledReply(
                      IF outcome = "raises"
                      THEN _create_error_response("Handler error: failed", nonce)
                      ELSE create_collaboration_response(
                              message.nonce,
                              HandlerResult(message.payload, message.sender_id),
                              "completed", nonce))
        /\ UNCHANGED collaboration_handlers

handle_collaboration_request(secure_message, nonce, outcome) ==
    LET out == VerifyOutcome(secure_message)
        verified == out.ok
        message == out.message[1]
        message_type == message.message_type
    IN  /\ Len(handler_calls) < MaxAccepted
        /\ IF ~verified
           THEN /\ ret' = HandledReply(_create_error_response(
                              "Invalid message signature", nonce))
                /\ UNCHANGED handler_calls
           ELSE IF message_type \notin collaboration_handlers
           THEN /\ ret' = HandledReply(_create_error_response(
                              "No handler for message type: " \o message_type, nonce))
                /\ UNCHANGED handler_calls
           ELSE /\ handler_calls' = Append(handler_calls, message.payload)
                /\ ret' = HandledReply(
                      IF outcome = "raises"
                      THEN _create_error_response("Handler error: failed", nonce)
                      ELSE create_collaboration_response(
                              message.nonce,
                              HandlerResult(message.payload, message.sender_id),
                              "completed", nonce))
        /\ UNCHANGED collaboration_handlers

(***************************************************************************)
(* UnifiedLLMManager.route_to_agent called by itself: random.randint(1, 5) *)
(* and round(random.uniform(0.8, 0.95), 2), in hundredths, are draws of    *)
(* each call.                                                              *)
(***************************************************************************)
RouterQueries == {{"roi"}, {"campaign"}, {"pipeline"}, {"weather"}}
RouterEstimatedTimes == 1..5
RouterConfidences == {80, 95}
RouterEntry(agent_id) ==
    [agent_id |-> agent_id, agent_type |-> ProfileOf(agent_id).agent_type,
     capabilities |-> ProfileOf(agent_id).capabilities]
RouterAgentLists ==
    {<<>>} \cup {<<RouterEntry(a)>> : a \in AgentIds}
           \cup {<<RouterEntry(a), RouterEntry(b)>> : a, b \in AgentIds}

route_to_agent(query, available_agents, estimated_time, confidence) ==
    ret' = [op |-> "route_to_agent", agent_id |-> None, client_id |-> None,
            status |-> None, error |-> None,
            query |-> query, available_agents |-> available_agents,
            output |-> _mock_route_to_agent(query, available_agents,
                                            estimated_time, confidence)]

(***************************************************************************)
(* VMCommunicationManager.broadcast_to_all_agents.  Its tasks are the      *)
(* coroutine objects of send_to_agent, one per configured kind in the      *)
(* order of the dict; a coroutine object runs when it is awaited.          *)
(* in_flight holds the kinds whose send has started and not yet returned.  *)
(***************************************************************************)
EndpointOrder == <<"finance", "marketing", "sales">>
\* The endpoints that the environment of a deployment names.
EnvEndpoints == SUBSET {"finance", "marketing", "sales"}

NoBroadcast == [tasks |-> <<>>, awaiting |-> 0, in_flight |-> {}, results |-> <<>>]

load_spoke_endpoints_from_env(env) ==
    /\ broadcast = NoBroadcast
    /\ spoke_endpoints' = spoke_endpoints \cup env
    /\ UNCHANGED <<broadcast, ret>>

BroadcastReply(results) ==
    [op |-> "broadcast_to_all_agents", agent_id |-> None, client_id |-> None,
     status |-> None, error |-> None, results |-> results]

\* Lines 176-181 build the tasks; line 186 awaits the first of them.
broadcast_to_all_agents ==
    LET tasks == SelectSeq(EndpointOrder, LAMBDA agent_type : agent_type \in spoke_endpoints)
    IN  /\ broadcast = NoBroadcast
        /\ IF tasks = <<>>
           THEN /\ ret' = BroadcastReply(<<>>)
                /\ UNCHANGED broadcast
           ELSE /\ broadcast' = [tasks |-> tasks, awaiting |-> 1,
                                 in_flight |-> {tasks[1]}, results |-> <<>>]
                /\ UNCHANGED ret
        /\ UNCHANGED spoke_endpoints

\* The awaited send returns (lines 186-187); the loop awaits the next task, or the
\* broadcast returns its results.
broadcast_send_returns(outcome) ==
    LET agent_type == broadcast.tasks[broadcast.awaiting]
        results == (agent_type :> outcome) @@ broadcast.results
    IN  /\ broadcast.awaiting > 0
        /\ IF broadcast.awaiting < Len(broadcast.tasks)
           THEN /\ broadcast' = [broadcast EXCEPT
                                    !.awaiting = @ + 1,
                                    !.in_flight = {broadcast.tasks[broadcast.awaiting + 1]},
                                    !.results = results]
                /\ UNCHANGED ret
           ELSE /\ broadcast' = NoBroadcast
                /\ ret' = BroadcastReply(results)
        /\ UNCHANGED spoke_endpoints

(***************************************************************************)
(* Runs of consecutive update_agent_heartbeat calls for one agent.  hb_run *)
(* keeps the registry as it was before the first call of the run, how many *)
(* calls the run has (3 stands for three or more) and when the last one    *)
(* was made; any other call on the registry ends the run.                  *)
(***************************************************************************)
NoRun == [agent_id |-> None, client_id |-> None, n |-> 0, at |-> 0,
          agents |-> <<>>, client_agents |-> <<>>]

HeartbeatRun(agent_id, client_id) ==
    IF get_agent(agent_id, client_id) = <<>>
    THEN NoRun
    ELSE IF hb_run.n > 0 /\ hb_run.agent_id = agent_id /\ hb_run.client_id = client_id
    THEN [hb_run EXCEPT !.n = IF @ < 3 THEN @ + 1 ELSE 3, !.at = now]
    ELSE [agent_id |-> agent_id, client_id |-> client_id, n |-> 1, at |-> now,
          agents |-> agents, client_agents |-> client_agents]

(***************************************************************************)
(* POST /orchestration/response/{routing_id} (hub/api/routes): the route   *)
(* resolves the caller's client id and hands the routing id and the body   *)
(* to the engine.                                                          *)
(***************************************************************************)
routes_process_collaboration_response(routing_id, response_data, x_client_id, new_routing_id, estimated_time, confidence) ==
    \/ /\ get_client_id_rejects("process_collaboration_response", x_client_id)
       /\ UNCHANGED <<active_requests, pending, id_reused>>
    \/ /\ x_client_id # None
       /\ process_collaboration_response(routing_id, response_data, new_routing_id,
                                         estimated_time, confidence)
       /\ UNCHANGED documents_db

(***************************************************************************)
(* The agent routes of the hub (hub/api/routes) as an HTTP client meets    *)
(* them: headers is the function from the header names a request carries   *)
(* to their values, and Header(None) of a name it does not carry is None.  *)
(***************************************************************************)
HeaderOf(headers, name) == IF name \in DOMAIN headers THEN headers[name] ELSE None

HttpError(op, status_code, detail) ==
    [op |-> op, agent_id |-> None, client_id |-> None, status |-> "error",
     error |-> detail, status_code |-> status_code]

\* POST /agents/register
routes_register_agent(registration, headers) ==
    LET x_client_id == HeaderOf(headers, "X-Client-ID")
        x_attestation_quote == HeaderOf(headers, "X-Attestation-Quote")
        x_public_key == HeaderOf(headers, "X-Public-Key")
        from_headers == x_attestation_quote # None /\ x_public_key # None
    IN IF x_client_id = None
       THEN /\ ret' = HttpError("register_agent", 400, "X-Client-ID header required")
            /\ UNCHANGED <<agents, client_agents>>
       ELSE register_agent(registration.agent_id, x_client_id,
                           [agent_type |-> registration.agent_type,
                            capabilities |-> registration.capabilities],
                           IF from_headers THEN x_attestation_quote
                           ELSE registration.attestation_data.quote,
                           IF from_headers THEN x_public_key
                           ELSE registration.attestation_data.public_key)

\* POST /agents/heartbeat
routes_agent_heartbeat(heartbeat_data, headers) ==
    LET x_client_id == HeaderOf(headers, "X-Client-ID")
    IN IF x_client_id = None
       THEN /\ ret' = HttpError("agent_heartbeat", 400, "X-Client-ID header required")
            /\ UNCHANGED <<agents, client_agents>>
       ELSE IF heartbeat_data.agent_id = None
       THEN /\ ret' = HttpError("agent_heartbeat", 400, "agent_id required")
            /\ UNCHANGED <<agents, client_agents>>
       ELSE update_agent_heartbeat(heartbeat_data.agent_id, x_client_id)

\* The HTTP status of the answer the route gives for the reply ret holds.
HttpStatus(reply) ==
    IF "status_code" \in DOMAIN reply THEN reply.status_code
    ELSE IF reply.op = "register_agent"
    THEN (IF reply.status = "rejected" THEN 400 ELSE 201)
    ELSE IF reply.op = "update_agent_heartbeat"
    THEN (IF reply.status = "true" THEN 200 ELSE 404)
    ELSE 200

(***************************************************************************)
(* The agent process: AgentCommunication (shared/agent_communication) and  *)
(* BaseAgent (agents/base_agent).  generate_attestation_quote and the key  *)
(* manager are the attestation client's and the key store's; the quote an  *)
(* agent generates is one the hub's verifier accepts or one it rejects.    *)
(***************************************************************************)
GeneratedQuotes == {"quote-ok", "quote-bad"}

RegistrationRequest(agent_id, quote) ==
    [json |-> [agent_id |-> agent_id,
               agent_type |-> ProfileOf(agent_id).agent_type,
               capabilities |-> ProfileOf(agent_id).capabilities,
               attestation_data |-> [quote |-> quote, public_key |-> "pem"]],
     headers |-> [h \in {"Content-Type", "X-Agent-ID", "X-Attestation-Quote",
                         "X-Public-Key"} |->
                     IF h = "Content-Type" THEN "application/json"
                     ELSE IF h = "X-Agent-ID" THEN agent_id
                     ELSE IF h = "X-Attestation-Quote" THEN quote
                     ELSE "pem"]]

\* register_with_hub: the hub answers the request within the call; the value
\* returned is kept in communication[agent_id].registered.
register_with_hub(agent_id, quote) ==
    LET request == RegistrationRequest(agent_id, quote)
    IN /\ routes_register_agent(request.json, request.headers)
       /\ communication' =
             [communication EXCEPT ![agent_id] =
                 [hub_endpoint |-> "hub",
                  quote |-> quote,
                  registered |-> /\ HttpStatus(ret') = 201
                                 /\ ret'.status = "registered"]]

\* BaseAgent.initialize: is_running is set whatever register_with_hub returned.
initialize(agent_id, quote) ==
    /\ ~base_agent[agent_id].is_running
    /\ register_with_hub(agent_id, quote)
    /\ base_agent' = [base_agent EXCEPT
                         ![agent_id] = [is_running |-> TRUE, started_at |-> now]]

HeartbeatRequest(agent_id) ==
    [json |-> [agent_id |-> agent_id, status |-> "healthy",
               timestamp |-> isoformat(now)],
     headers |-> [h \in {"X-Agent-ID"} |-> agent_id]]

\* heartbeat_to_hub: the answer of the hub is not looked at.
heartbeat_to_hub(agent_id) ==
    IF communication[agent_id].hub_endpoint = None
    THEN /\ heartbeat_loop' = [heartbeat_loop EXCEPT ![agent_id].sent = TRUE]
         /\ UNCHANGED <<agents, client_agents, ret>>
    ELSE LET request == HeartbeatRequest(agent_id)
         IN /\ routes_agent_heartbeat(request.json, request.headers)
            /\ heartbeat_loop' =
                  [heartbeat_loop EXCEPT
                      ![agent_id] = [sent |-> TRUE, status_code |-> HttpStatus(ret')]]

\* BaseAgent.send_heartbeat, called once per period by start_heartbeat_loop
send_heartbeat(agent_id) ==
    /\ base_agent[agent_id].is_running
    /\ ~heartbeat_loop[agent_id].sent
    /\ heartbeat_to_hub(agent_id)

\* start_heartbeat_loop: asyncio.sleep(60) of every running agent ends
HeartbeatPeriod == 60

heartbeat_loop_sleeps ==
    /\ \A a \in AgentIds : base_agent[a].is_running => heartbeat_loop[a].sent
    /\ now + HeartbeatPeriod <= MaxTime
    /\ now' = now + HeartbeatPeriod
    /\ heartbeat_loop' = [a \in AgentIds |-> [heartbeat_loop[a] EXCEPT !.sent = FALSE]]

(***************************************************************************)
(* The wall clock.                                                         *)
(***************************************************************************)
Tick(d) ==
    /\ now + d <= MaxTime
    /\ now' = now + d

regVars == <<agents, client_agents>>
msgVars == <<wire, accepted>>
engVars == <<spoke_endpoints, active_requests, pending, id_reused>>
docVars == <<documents_db>>
agtVars == <<collaboration_handlers, handler_calls>>
vmVars == <<broadcast>>
hbVars == <<hb_run>>
procVars == <<communication, base_agent, heartbeat_loop>>
vars == <<now, agents, client_agents, ret, wire, accepted,
          spoke_endpoints, active_requests, pending, id_reused, documents_db,
          collaboration_handlers, handler_calls, broadcast, hb_run,
          communication, base_agent, heartbeat_loop>>

Init ==
    /\ now = 0
    /\ agents = <<>>
    /\ client_agents = [c \in ClientIds |-> <<>>]
    /\ ret = [op |-> None, agent_id |-> None, client_id |-> None,
              status |-> None, error |-> None]
    /\ wire = {}
    /\ accepted = <<>>
    /\ spoke_endpoints = ConfiguredEndpoints
    /\ active_requests = <<>>
    /\ pending = {}
    /\ id_reused = FALSE
    /\ documents_db = <<>>
    /\ collaboration_handlers = {}
    /\ handler_calls = <<>>
    /\ broadcast = NoBroadcast
    /\ hb_run = NoRun
    /\ communication = [a \in AgentIds |->
                           [hub_endpoint |-> None, quote |-> None, registered |-> FALSE]]
    /\ base_agent = [a \in AgentIds |-> [is_running |-> FALSE, started_at |-> 0]]
    /\ heartbeat_loop = [a \in AgentIds |-> [sent |-> FALSE, status_code |-> 0]]

RegisterAgent ==
    \E agent_id \in AgentIds, client_id \in ClientIds,
       attestation_data \in AttestationData :
        /\ register_agent(agent_id, client_id, ProfileOf(agent_id),
                          attestation_data[1], attestation_data[2])
        /\ UNCHANGED <<now, msgVars, engVars, docVars, agtVars, vmVars, hbVars,
                       procVars>>

Heartbeat ==
    \E agent_id \in AgentIds, client_id \in ClientIds :
        /\ update_agent_heartbeat(agent_id, client_id)
        /\ UNCHANGED <<now, msgVars, engVars, docVars, agtVars, vmVars, hbVars,
                       procVars>>

HealthSweep ==
    \E client_id \in ClientIds :
        /\ check_agent_health(client_id)
        /\ UNCHANGED <<now, msgVars, engVars, docVars, agtVars, vmVars, hbVars,
                       procVars>>

RemoveAgent ==
    \E agent_id \in AgentIds, client_id \in ClientIds :
        /\ remove_agent(agent_id, client_id)
        /\ UNCHANGED <<now, msgVars, engVars, docVars, agtVars, vmVars, hbVars,
                       procVars>>

ClockTick ==
    \E d \in TickSteps :
        /\ Tick(d)
        /\ UNCHANGED <<regVars, msgVars, engVars, docVars, agtVars, vmVars, hbVars,
                       procVars, ret>>

NextRegistry ==
    \/ RegisterAgent
    \/ Heartbeat
    \/ HealthSweep
    \/ RemoveAgent
    \/ ClockTick

SpecRegistry == Init /\ [][NextRegistry]_vars

(***************************************************************************)
(* The envelope layer between one receiver and the processes that send.    *)
(***************************************************************************)
CreateSecureMessage ==
    \E proc \in Procs, payload \in Payloads, nonce \in Nonces,
       recipient_public_key \in RecipientKeys, skew \in ClockSkews :
        /\ create_secure_message(proc, "hub", "collaboration_response", payload,
                                 recipient_public_key, nonce, skew)
        /\ UNCHANGED <<now, regVars, engVars, docVars, agtVars, vmVars, hbVars,
                       procVars>>

VerifySecureMessage ==
    \E secure_message \in Submittable :
        /\ verify_secure_message(secure_message)
        /\ UNCHANGED <<now, regVars, engVars, docVars, agtVars, vmVars, hbVars,
                       procVars>>

MsgClockTick ==
    \E d \in MsgTickSteps :
        /\ Tick(d)
        /\ UNCHANGED <<regVars, msgVars, engVars, docVars, agtVars, vmVars, hbVars,
                       procVars, ret>>

NextMessaging ==
    \/ CreateSecureMessage
    \/ VerifySecureMessage
    \/ MsgClockTick

SpecMessaging == Init /\ [][NextMessaging]_vars

(***************************************************************************)
(* The hub: the registry behind the engine, the engine's handlers and the  *)
(* transport.                                                              *)
(***************************************************************************)
\* The engine is driven by one client, whose agents register once each; a response
\* names the agent the entry was dispatched to.
EngineClients == {"acme"}
Responders(routing_id) ==
    IF routing_id \in DOMAIN active_requests
    THEN {active_requests[routing_id].target_agent.agent_id}
    ELSE {"agent-1"}

EngineRegisterAgent ==
    \E agent_id \in AgentIds, client_id \in EngineClients,
       attestation_data \in AttestationData :
        /\ agent_id \notin DOMAIN agents
        /\ register_agent(agent_id, client_id, ProfileOf(agent_id),
                          attestation_data[1], attestation_data[2])
        /\ UNCHANGED <<now, msgVars, engVars, docVars, agtVars, vmVars, hbVars,
                       procVars>>

RouteRequest ==
    \E query \in Queries, requesting_agent \in RequestingAgents,
       client_id \in EngineClients, routing_id \in RoutingIds,
       estimated_time \in EstimatedTimes, confidence \in RouteConfidences :
        /\ route_request(active_requests,
                         [query |-> query,
                          requesting_agent |-> requesting_agent,
                          data_requirements |-> DataRequirements],
                         client_id, routing_id, estimated_time, confidence,
                         "route_request", None, 0)
        /\ UNCHANGED <<now, regVars, msgVars, spoke_endpoints, docVars, agtVars,
                       vmVars, hbVars, procVars>>

SendToAgentReturns ==
    \E frame \in pending, outcome \in SendOutcomes :
        /\ send_to_agent_returns(frame, outcome)
        /\ UNCHANGED <<now, regVars, msgVars, spoke_endpoints, docVars, agtVars,
                       vmVars, hbVars, procVars>>

ProcessCollaborationResponse ==
    \E routing_id \in RoutingIds, result \in Results,
       new_routing_id \in RoutingIds,
       estimated_time \in EstimatedTimes, confidence \in RouteConfidences :
        \E agent_id \in Responders(routing_id) :
        /\ process_collaboration_response(
              routing_id,
              [agent_id |-> agent_id,
               agent_type |-> ProfileOf(agent_id).agent_type,
               result |-> result],
              new_routing_id, estimated_time, confidence)
        /\ UNCHANGED <<now, regVars, msgVars, spoke_endpoints, docVars, agtVars,
                       vmVars, hbVars, procVars>>

NextEngine ==
    \/ EngineRegisterAgent
    \/ RouteRequest
    \/ SendToAgentReturns
    \/ ProcessCollaborationResponse

SpecEngine == Init /\ [][NextEngine]_vars

\* The hub as it runs by itself: a network call of send_to_agent ends (aiohttp's
\* total timeout), while registrations, requests and responses come only when a
\* client or an agent sends them.
SpecEngineFair == SpecEngine /\ WF_vars(SendToAgentReturns)

(***************************************************************************)
(* The document catalog behind its routes.                                 *)
(***************************************************************************)
UploadDocument ==
    \E file \in Files, client_id \in ClientIds,
       upload_id \in UploadIds, document_id \in DocumentIds,
       confidence_score \in CategorizationConfidences, fault \in Faults :
        /\ process_upload(file[2], file[1],
                          [department |-> None, tags |-> <<>>,
                           original_filename |-> file[1]],
                          client_id, upload_id, document_id, confidence_score, fault)
        /\ UNCHANGED <<now, regVars, msgVars, engVars, agtVars, vmVars, hbVars,
                       procVars>>

GetDocument ==
    \E document_id \in DocumentIds, x_client_id \in ClientHeaders :
        /\ routes_get_document(document_id, x_client_id)
        /\ UNCHANGED <<now, regVars, msgVars, engVars, agtVars, vmVars, hbVars,
                       procVars>>

SearchDocuments ==
    \E department \in {None, "Finance"}, document_type \in {None, "Report"},
       date_from \in DateFilters, date_to \in DateFilters,
       x_client_id \in ClientHeaders :
        /\ routes_search_documents(department, document_type, date_from, date_to,
                                   x_client_id)
        /\ UNCHANGED <<now, regVars, msgVars, engVars, agtVars, vmVars, hbVars,
                       procVars>>

DocClockTick ==
    \E d \in DocTickSteps :
        /\ Tick(d)
        /\ UNCHANGED <<regVars, msgVars, engVars, docVars, agtVars, vmVars, hbVars,
                       procVars, ret>>

NextDocuments ==
    \/ UploadDocument
    \/ GetDocument
    \/ SearchDocuments
    \/ DocClockTick

SpecDocuments == Init /\ [][NextDocuments]_vars

(***************************************************************************)
(* An agent that receives collaboration requests from the other processes. *)
(***************************************************************************)
RegisterHandlers ==
    \E message_type \in RegisteredTypes :
        /\ register_collaboration_handler(message_type)
        /\ UNCHANGED <<now, regVars, msgVars, engVars, docVars, vmVars, hbVars,
                       procVars>>

SendCollaborationRequest ==
    \E proc \in Procs, message_type \in MessageTypes, payload \in Payloads :
        /\ create_secure_message(proc, Receiver.AGENT_ID, message_type, payload,
                                 <<>>, "nonce-a", 0)
        /\ UNCHANGED <<now, regVars, engVars, docVars, agtVars, vmVars, hbVars,
                       procVars>>

HandleCollaborationRequest ==
    \E secure_message \in Submittable, nonce \in ResponseNonces,
       outcome \in HandlerOutcomes :
        /\ handle_collaboration_request(secure_message, nonce, outcome)
        /\ UNCHANGED <<now, regVars, msgVars, engVars, docVars, vmVars, hbVars,
                       procVars>>

AgentClockTick ==
    \E d \in TickSteps :
        /\ Tick(d)
        /\ UNCHANGED <<regVars, msgVars, engVars, docVars, agtVars, vmVars, hbVars,
                       procVars, ret>>

NextAgent ==
    \/ RegisterHandlers
    \/ SendCollaborationRequest
    \/ HandleCollaborationRequest
    \/ AgentClockTick

SpecAgent == Init /\ [][NextAgent]_vars

(***************************************************************************)
(* The router policy called with a query and a list of verified agents.    *)
(***************************************************************************)
RouteToAgent ==
    \E query \in RouterQueries, available_agents \in RouterAgentLists,
       estimated_time \in RouterEstimatedTimes, confidence \in RouterConfidences :
        /\ route_to_agent(query, available_agents, estimated_time, confidence)
        /\ UNCHANGED <<now, regVars, msgVars, engVars, docVars, agtVars, vmVars,
                       hbVars, procVars>>

NextRouter == RouteToAgent

SpecRouter == Init /\ [][NextRouter]_vars

(***************************************************************************)
(* The transport's broadcast to the configured spokes.                     *)
(***************************************************************************)
LoadSpokeEndpoints ==
    \E env \in EnvEndpoints :
        /\ load_spoke_endpoints_from_env(env)
        /\ UNCHANGED <<now, regVars, msgVars, active_requests, pending, id_reused,
                       docVars, agtVars, hbVars, procVars>>

BroadcastToAllAgents ==
    /\ broadcast_to_all_agents
    /\ UNCHANGED <<now, regVars, msgVars, active_requests, pending, id_reused,
                   docVars, agtVars, hbVars, procVars>>

BroadcastSendReturns ==
    \E outcome \in SendOutcomes :
        /\ broadcast_send_returns(outcome)
        /\ UNCHANGED <<now, regVars, msgVars, active_requests, pending, id_reused,
                       docVars, agtVars, hbVars, procVars>>

NextBroadcast ==
    \/ LoadSpokeEndpoints
    \/ BroadcastToAllAgents
    \/ BroadcastSendReturns

SpecBroadcast == Init /\ [][NextBroadcast]_vars

(***************************************************************************)
(* The registry under runs of heartbeats: registrations and sweeps end a   *)
(* run, the clock advances between the calls of a run.                     *)
(***************************************************************************)
RunRegisterAgent ==
    \E agent_id \in AgentIds, client_id \in ClientIds,
       attestation_data \in AttestationData :
        /\ register_agent(agent_id, client_id, ProfileOf(agent_id),
                          attestation_data[1], attestation_data[2])
        /\ hb_run' = NoRun
        /\ UNCHANGED <<now, msgVars, engVars, docVars, agtVars, vmVars, procVars>>

RunHeartbeat ==
    \E agent_id \in AgentIds, client_id \in ClientIds :
        /\ update_agent_heartbeat(agent_id, client_id)
        /\ hb_run' = HeartbeatRun(agent_id, client_id)
        /\ UNCHANGED <<now, msgVars, engVars, docVars, agtVars, vmVars, procVars>>

RunHealthSweep ==
    \E client_id \in ClientIds :
        /\ check_agent_health(client_id)
        /\ hb_run' = NoRun
        /\ UNCHANGED <<now, msgVars, engVars, docVars, agtVars, vmVars, procVars>>

RunClockTick ==
    \E d \in TickSteps :
        /\ Tick(d)
        /\ UNCHANGED <<regVars, msgVars, engVars, docVars, agtVars, vmVars, hbVars,
                       procVars, ret>>

NextHeartbeats ==
    \/ RunRegisterAgent
    \/ RunHeartbeat
    \/ RunHealthSweep
    \/ RunClockTick

SpecHeartbeats == Init /\ [][NextHeartbeats]_vars

(***************************************************************************)
(* The hub over time: the engine's handlers with the registry's health     *)
(* sweeps between them, and the clock advancing by the 15 minutes after    *)
(* which a silent agent is inactive.  Agents register with an accepted     *)
(* quote, at any time, requests come from the client and a response        *)
(* carries a result object.                                                *)
(***************************************************************************)
HealthTickSteps == {900}
HealthResults == {result \in Results : result.is_dict}

HealthRegisterAgent ==
    \E agent_id \in AgentIds, client_id \in EngineClients :
        /\ agent_id \notin DOMAIN agents
        /\ register_agent(agent_id, client_id, ProfileOf(agent_id), "quote-ok", "pem")
        /\ UNCHANGED <<now, msgVars, engVars, docVars, agtVars, vmVars, hbVars,
                       procVars>>

HealthSweepAgents ==
    \E client_id \in EngineClients :
        /\ check_agent_health(client_id)
        /\ UNCHANGED <<now, msgVars, engVars, docVars, agtVars, vmVars, hbVars,
                       procVars>>

HealthClockTick ==
    \E d \in HealthTickSteps :
        /\ Tick(d)
        /\ UNCHANGED <<regVars, msgVars, engVars, docVars, agtVars, vmVars, hbVars,
                       procVars, ret>>

HealthRouteRequest ==
    \E query \in Queries, client_id \in EngineClients, routing_id \in RoutingIds,
       estimated_time \in EstimatedTimes, confidence \in RouteConfidences :
        /\ route_request(active_requests,
                         [query |-> query,
                          requesting_agent |-> None,
                          data_requirements |-> DataRequirements],
                         client_id, routing_id, estimated_time, confidence,
                         "route_request", None, 0)
        /\ UNCHANGED <<now, regVars, msgVars, spoke_endpoints, docVars, agtVars,
                       vmVars, hbVars, procVars>>

HealthProcessResponse ==
    \E routing_id \in RoutingIds, result \in HealthResults,
       new_routing_id \in RoutingIds,
       estimated_time \in EstimatedTimes, confidence \in RouteConfidences :
        \E agent_id \in Responders(routing_id) :
        /\ process_collaboration_response(
              routing_id,
              [agent_id |-> agent_id,
               agent_type |-> ProfileOf(agent_id).agent_type,
               result |-> result],
              new_routing_id, estimated_time, confidence)
        /\ UNCHANGED <<now, regVars, msgVars, spoke_endpoints, docVars, agtVars,
                       vmVars, hbVars, procVars>>

NextEngineHealth ==
    \/ HealthRegisterAgent
    \/ HealthSweepAgents
    \/ HealthClockTick
    \/ HealthRouteRequest
    \/ SendToAgentReturns
    \/ HealthProcessResponse

SpecEngineHealth == Init /\ [][NextEngineHealth]_vars

(***************************************************************************)
(* The orchestration routes called by the processes of both clients.       *)
(***************************************************************************)
PostCollaborationResponse ==
    \E routing_id \in RoutingIds, result \in HealthResults,
       x_client_id \in ClientHeaders, new_routing_id \in RoutingIds,
       estimated_time \in EstimatedTimes, confidence \in RouteConfidences :
        \E agent_id \in Responders(routing_id) :
        /\ routes_process_collaboration_response(
              routing_id,
              [agent_id |-> agent_id,
               agent_type |-> ProfileOf(agent_id).agent_type,
               result |-> result],
              x_client_id, new_routing_id, estimated_time, confidence)
        /\ UNCHANGED <<now, regVars, msgVars, spoke_endpoints, agtVars, vmVars,
                       hbVars, procVars>>

NextResponseRoute ==
    \/ HealthRegisterAgent
    \/ HealthRouteRequest
    \/ SendToAgentReturns
    \/ PostCollaborationResponse

SpecResponseRoute == Init /\ [][NextResponseRoute]_vars

(***************************************************************************)
(* The agent processes against the hub: each initializes once, then sends  *)
(* one heartbeat per period of its loop while the hub is reachable.  A     *)
(* registration also reaches the hub from a caller that names its client   *)
(* in the X-Client-ID header.                                              *)
(***************************************************************************)
\* The agent process that is followed, and for how long: one period past the 5
\* minutes after which a silent agent is unhealthy.
LoopAgents == {"agent-1"}
LoopHorizon == 360

AgentInitialize ==
    \E agent_id \in LoopAgents, quote \in GeneratedQuotes :
        /\ initialize(agent_id, quote)
        /\ UNCHANGED <<now, msgVars, engVars, docVars, agtVars, vmVars, hbVars,
                       heartbeat_loop>>

ClientRegistersAgent ==
    \E agent_id \in LoopAgents, client_id \in EngineClients :
        LET request == RegistrationRequest(agent_id, "quote-ok")
        IN /\ agent_id \notin DOMAIN agents
           /\ routes_register_agent(request.json,
                                    ("X-Client-ID" :> client_id) @@ request.headers)
           /\ UNCHANGED <<now, msgVars, engVars, docVars, agtVars, vmVars, hbVars,
                          procVars>>

AgentSendHeartbeat ==
    \E agent_id \in LoopAgents :
        /\ send_heartbeat(agent_id)
        /\ UNCHANGED <<now, msgVars, engVars, docVars, agtVars, vmVars, hbVars,
                       communication, base_agent>>

AgentLoopSleeps ==
    /\ now + HeartbeatPeriod <= LoopHorizon
    /\ heartbeat_loop_sleeps
    /\ UNCHANGED <<regVars, msgVars, engVars, docVars, agtVars, vmVars, hbVars,
                   communication, base_agent, ret>>

AgentHealthSweep ==
    \E client_id \in EngineClients :
        /\ check_agent_health(client_id)
        /\ UNCHANGED <<now, msgVars, engVars, docVars, agtVars, vmVars, hbVars,
                       procVars>>

NextAgentHub ==
    \/ AgentInitialize
    \/ ClientRegistersAgent
    \/ AgentSendHeartbeat
    \/ AgentLoopSleeps
    \/ AgentHealthSweep

SpecAgentHub == Init /\ [][NextAgentHub]_vars

(***************************************************************************)
(* The whole hub.                                                          *)
(***************************************************************************)
Next ==
    \/ NextRegistry
    \/ NextMessaging
    \/ NextEngine
    \/ NextDocuments
    \/ NextAgent
    \/ NextRouter
    \/ NextBroadcast
    \/ NextHeartbeats
    \/ NextEngineHealth
    \/ NextResponseRoute
    \/ NextAgentHub

Spec == Init /\ [][Next]_vars

(***************************************************************************)
(* Properties.                                                             *)
(***************************************************************************)

\* C1: no (sender id, nonce) pair is accepted twice by the receiver within the
\* 300-second freshness window: a re-submitted envelope is rejected as a replay.
C1_NoReplayAccepted ==
    \A i, j \in 1..Len(accepted) :
        (/\ i < j
         /\ accepted[i].message.sender_id = accepted[j].message.sender_id
         /\ accepted[i].message.nonce = accepted[j].message.nonce)
        => accepted[j].at - accepted[i].at > MaxAgeSeconds

\* C2: every accepted envelope that names S as its sender carries a signature that
\* verifies under S's own public key, and advertises that key.
C2_AcceptedUnderSendersKey ==
    \A i \in 1..Len(accepted) :
        LET e == accepted[i].envelope
            m == accepted[i].message
            own == get_public_key_pem(OwnKey(m.sender_id))
        IN /\ verify_signature(json_dumps(m), e.signature, own)
           /\ e.sender_public_key = own

\* C3: every record a registry lookup returns under client C (get_agent,
\* get_all_agents, get_agents_by_capability, get_agent_directory) is owned by C.
OwnedBy(records, client_id) ==
    \A i \in 1..Len(records) : records[i].client_id = client_id

C3_LookupsScopedToClient ==
    \A c \in ClientIds :
        /\ \A a \in AgentIds : OwnedBy(get_agent(a, c), c)
        /\ OwnedBy(get_all_agents(c), c)
        /\ \A cap \in Capabilities : OwnedBy(get_agents_by_capability(cap, c), c)
        /\ \A i \in 1..Len(get_agent_directory(c)) :
              agents[get_agent_directory(c)[i].agent_id].client_id = c

\* C4: a record is verified after a step only if it was the same verified record
\* before the step (at most its last_seen refreshed), or the step is a register_agent
\* call for that agent that returned registered and whose stored quote the
\* attestation verifier accepts; heartbeats, sweeps and rejected registrations never
\* create a verified record or set a status to verified.
StoredVerifiedBefore(a) ==
    /\ a \in DOMAIN agents
    /\ agents[a].status = "verified"
    /\ [agents'[a] EXCEPT !.last_seen = agents[a].last_seen] = agents[a]

C4_VerifiedOnlyByAttestedRegistration ==
    [][\A a \in AgentIds :
          (a \in DOMAIN agents' /\ agents'[a].status = "verified")
          => \/ StoredVerifiedBefore(a)
             \/ /\ ret'.op = "register_agent"
                /\ ret'.status = "registered"
                /\ ret'.agent_id = a
                /\ ret'.client_id = agents'[a].client_id
                /\ verify_attestation_quote(agents'[a].attestation_quote).ok
      ]_vars

\* C4 witness: a heartbeat has been accepted while one record is verified and
\* another has been swept to inactive.
C4_Witness ==
    /\ ret.op = "update_agent_heartbeat"
    /\ ret.status = "true"
    /\ \E a, b \in DOMAIN agents :
          agents[a].status = "verified" /\ agents[b].status = "inactive"

\* C5: when process_collaboration_response returns completed for R, R's entry is
\* gone and the synthesized responses number 1 or 2; and no entry ever holds more
\* than 2 responses.
Finalizes ==
    /\ ret'.op = "process_collaboration_response"
    /\ ret'.status = "completed"
    /\ active_requests' # active_requests
    /\ pending' = pending

C5_CompletedWithOneOrTwoResponses ==
    [][/\ Finalizes =>
            /\ ret'.routing_id \notin DOMAIN active_requests'
            /\ Len(ret'.responses) \in 1..2
       /\ \A r \in DOMAIN active_requests' :
            Len(active_requests'[r].responses) <= 2
      ]_vars

\* C6: every escalation dispatches to an agent other than the one whose response
\* triggered it and other than the request's requesting agent.  Stated for the
\* runs in which every routing id was unused when it was drawn.
C6_EscalationToAnotherAgent ==
    ~id_reused =>
        \A f \in pending :
            f.op = "process_collaboration_response"
            => /\ f.target_agent.agent_id # f.trigger
               /\ f.target_agent.agent_id # f.request_data.requesting_agent

\* C7: an original client request is escalated at most once: no entry is the
\* product of a second escalation.  Stated for the runs in which every routing
\* id was unused when it was drawn.
C7_AtMostOneEscalation ==
    ~id_reused =>
        \A r \in DOMAIN active_requests : active_requests[r].hops <= 1

\* C8: after route_request's dispatch failed (kind not configured, timeout, non-200
\* status, peer unreachable) no active-collaboration entry exists for that routing id.
DispatchFailed ==
    /\ ret'.op = "route_request"
    /\ ret'.status = "routed"
    /\ ret'.collaboration_result # "ok"
    /\ ret' # ret

C8_DispatchFailureLeavesNoEntry ==
    [][DispatchFailed => ret'.routing_id \notin DOMAIN active_requests']_vars

\* C9: whenever route_request selects a target for a client, the target is a record
\* of that client, verified at selection time, and is not the requesting agent.
SelectedTarget(query, requesting_agent, client_id) ==
    LET request_data == [query |-> query, requesting_agent |-> requesting_agent,
                         data_requirements |-> DataRequirements]
        available_agents == AvailableAgents(request_data, client_id)
    IN IF available_agents = <<>> THEN <<>>
       ELSE <<TargetAgent(available_agents,
                          _mock_route_to_agent(query, available_agents, 3, 90))>>

C9_TargetIsOwnVerifiedAgent ==
    \A query \in Queries, requesting_agent \in RequestingAgents,
       client_id \in ClientIds :
        \A i \in 1..Len(SelectedTarget(query, requesting_agent, client_id)) :
            LET t == SelectedTarget(query, requesting_agent, client_id)[i]
            IN /\ t.client_id = client_id
               /\ t.status = "verified"
               /\ t.agent_id # requesting_agent

\* C10 as stated: a rejected register_agent call changes no record and no
\* client-index entry, and the rejected agent is not listed by the directory afterwards.
RejectedRegistration ==
    /\ ret'.op = "register_agent"
    /\ ret'.status = "rejected"
    /\ now' = now

Listed(client_id) ==
    {get_agent_directory(client_id)[i].agent_id :
        i \in 1..Len(get_agent_directory(client_id))}

C10_RejectedAgentNotListed ==
    [][RejectedRegistration =>
          /\ agents' = agents
          /\ client_agents' = client_agents
          /\ \A c \in ClientIds :
                c = ret'.client_id => ret'.agent_id \notin Listed(c)'
      ]_vars

\* C10 as amended: a rejected register_agent call changes no record and no
\* client-index entry, and every client's directory is what it was before the call:
\* the rejected agent is listed afterwards only if it was listed before.
C10_RejectedLeavesRegistryUnchanged ==
    [][RejectedRegistration =>
          /\ agents' = agents
          /\ client_agents' = client_agents
          /\ \A c \in ClientIds :
                get_agent_directory(c)' = get_agent_directory(c)
      ]_vars

\* C10 witness: a registration of an agent that holds a record has been rejected
\* by the verifier.
C10_Witness ==
    /\ ret.op = "register_agent"
    /\ ret.status = "rejected"
    /\ ret.error = "quote rejected"
    /\ ret.agent_id \in DOMAIN agents

\* C11: records are keyed by (client id, agent id): when a client registers an
\* agent under an id that another client has already registered, the other
\* client's record is unchanged and still returned by its lookups, and the
\* registering client obtains a record of its own.
RegisteredOverOtherClient(a, c1, c2) ==
    /\ c1 # c2
    /\ get_agent(a, c1) # <<>>
    /\ ret'.op = "register_agent"
    /\ ret'.status = "registered"
    /\ ret'.agent_id = a
    /\ ret'.client_id = c2
    /\ ret' # ret

C11_RecordsKeyedByClientAndAgent ==
    [][\A a \in AgentIds, c1, c2 \in ClientIds :
          RegisteredOverOtherClient(a, c1, c2)
          => /\ get_agent(a, c1)' = get_agent(a, c1)
             /\ get_agent(a, c2)' # <<>>
      ]_vars

\* C12: the engine appends a peer's response, and uses it for the escalation
\* decision or the synthesis, only if the response arrived in an envelope that
\* passed verification.
C12_OnlyVerifiedResponsesUsed ==
    /\ \A r \in DOMAIN active_requests :
          \A i \in 1..Len(active_requests[r].responses) :
              active_requests[r].responses[i].arrived_verified
    /\ (ret.op = "process_collaboration_response" /\ ret.status = "completed")
       => \A i \in 1..Len(ret.responses) : ret.responses[i].arrived_verified

\* The inner message of a built envelope, as its builder composed it.
InnerMessage(e) ==
    IF e.encrypted THEN json_loads(_decrypt_payload(e.encrypted_payload))
    ELSE e.message[1]

StampOf(e) == InnerMessage(e).timestamp[2]

\* C13: a correctly signed envelope passes verify_secure_message exactly when its
\* timestamp differs from the receiver's clock by at most 300 seconds in either
\* direction.
C13_FreshWithin300EitherWay ==
    \A e \in wire :
        VerifyOutcome(e).ok
        <=> (now - StampOf(e) <= MaxAgeSeconds /\ StampOf(e) - now <= MaxAgeSeconds)

\* C14: a correctly signed envelope whose timestamp is more than 300 s older
\* than the receiver's clock (600 s, say) is rejected as stale, and the rejection
\* records nothing: what the receiver holds of accepted envelopes is unchanged.
C14_StaleRejectedRecordsNothing ==
    [][\A e \in wire :
          (now - StampOf(e) > MaxAgeSeconds /\ verify_secure_message(e))
          => /\ ret'.status = "false"
             /\ ret'.error = "Message timestamp too old"
             /\ accepted' = accepted
      ]_vars

\* C14 witness: an envelope stamped 600 s before the receiver's clock has been
\* submitted and rejected as too old.
C14_Witness ==
    /\ ret.op = "verify_secure_message"
    /\ ret.error = "Message timestamp too old"
    /\ \E e \in wire : now - StampOf(e) = 600

\* C15: changing the payload, timestamp, nonce or sender id of a built envelope
\* (in the plaintext message, or in the decrypted content of an encrypted one)
\* while keeping the original signature makes verify_secure_message reject it.
C15_TamperedEnvelopeRejected ==
    \A e \in wire : \A t \in Tampered(e) :
        /\ ~VerifyOutcome(t).ok
        /\ VerifyOutcome(t).message = <<>>

\* C15 witness: a tampered envelope has been submitted and rejected for its
\* signature (an envelope as built, or stripped of its signature, never is).
C15_Witness ==
    /\ ret.op = "verify_secure_message"
    /\ ret.status = "false"
    /\ ret.error = "Invalid signature"
    /\ wire # {}

TwoVerifiedAgents(r) ==
    LET registered == get_all_agents(active_requests[r].client_id)
    IN /\ Len(registered) = 2
       /\ \A i \in 1..2 : registered[i].status = "verified"

\* This step is a post to routing id r with the given confidence score, the
\* engine drawing routing id new if it routes again.
PostsResponse(r, score, new) ==
    \E agent_id \in Responders(r), estimated_time \in EstimatedTimes,
       confidence \in RouteConfidences :
        process_collaboration_response(
            r,
            [agent_id |-> agent_id,
             agent_type |-> ProfileOf(agent_id).agent_type,
             result |-> [is_dict |-> TRUE, confidence_score |-> score]],
            new, estimated_time, confidence)

\* C17: with two verified agents registered, a first response with confidence
\* 0.6 for a routing id makes the engine route once more and stays in that id's
\* entry; a second response with confidence 0.85 for the same routing id is
\* then synthesized with it, exactly 2 responses, and the entry is gone; a third
\* post for the same routing id returns the unknown-routing-id error.
C17_EscalateThenSynthesizeTwo ==
    [][\A r \in RoutingIds, new \in RoutingIds :
          /\ ( /\ r \in DOMAIN active_requests
               /\ active_requests[r].responses = <<>>
               /\ TwoVerifiedAgents(r)
               /\ PostsResponse(r, 60, new) )
             => /\ new \in DOMAIN active_requests'
                /\ active_requests'[new].responses = <<>>
                /\ r \in DOMAIN active_requests'
                /\ Len(active_requests'[r].responses) = 1
                /\ active_requests'[r].responses[1].result.confidence_score = 60
          /\ ( /\ r \in DOMAIN active_requests
               /\ Len(active_requests[r].responses) = 1
               /\ active_requests[r].responses[1].result.is_dict
               /\ active_requests[r].responses[1].result.confidence_score = 60
               /\ PostsResponse(r, 85, new) )
             => /\ ret'.status = "completed"
                /\ ret'.routing_id = r
                /\ Len(ret'.responses) = 2
                /\ r \notin DOMAIN active_requests'
          /\ ( /\ ret.op = "process_collaboration_response"
               /\ ret.status = "completed"
               /\ ret.routing_id = r
               /\ Len(ret.responses) = 2
               /\ r \notin DOMAIN active_requests   \* r not issued anew since
               /\ \E score \in {60, 85} : PostsResponse(r, score, new) )
             => /\ ret'.status = "error"
                /\ ret'.error = "Unknown routing ID"
      ]_vars

\* C18: process_collaboration_response for a routing id that has no active entry
\* (never issued, or already finalized) returns the unknown-routing-id error and
\* changes neither the set of active entries nor any entry's responses.
C18_UnknownRoutingIdChangesNothing ==
    [][\A routing_id \in RoutingIds, result \in Results,
          new_routing_id \in RoutingIds, estimated_time \in EstimatedTimes,
          confidence \in RouteConfidences, agent_id \in AgentIds :
          ( /\ routing_id \notin DOMAIN active_requests
            /\ process_collaboration_response(
                   routing_id,
                   [agent_id |-> agent_id,
                    agent_type |-> ProfileOf(agent_id).agent_type,
                    result |-> result],
                   new_routing_id, estimated_time, confidence) )
          => /\ ret' = ErrorResult("process_collaboration_response",
                                   "Unknown routing ID")
             /\ active_requests' = active_requests
             /\ pending' = pending
      ]_vars

\* C18 witness: a post for a routing id with no entry has been answered with the
\* error while another routing id's entry, holding a response, is in the table.
C18_Witness ==
    /\ ret = ErrorResult("process_collaboration_response", "Unknown routing ID")
    /\ \E r \in DOMAIN active_requests : Len(active_requests[r].responses) = 1

\* The calling client has no verified agent of its own besides the requester.
NoOtherVerifiedAgent(client_id, requesting_agent) ==
    \A agent_id \in AgentIds \ {requesting_agent} :
        \/ get_agent(agent_id, client_id) = <<>>
        \/ get_agent(agent_id, client_id)[1].status # "verified"

\* C19: when the calling client has no verified agent other than the requesting
\* agent, route_request finds no available agent, so it takes its error branch
\* (no-agents-available; no entry stored, nothing dispatched).
C19_NoAgentsWhenNoneVerified ==
    \A query \in Queries, requesting_agent \in RequestingAgents,
       client_id \in ClientIds :
        NoOtherVerifiedAgent(client_id, requesting_agent)
        => AvailableAgents([query |-> query,
                            requesting_agent |-> requesting_agent,
                            data_requirements |-> DataRequirements],
                           client_id) = <<>>

\* This step ends a dispatch of route_request in failure: the network call
\* returns a non-200 status, times out or cannot connect, or the target's
\* endpoint is not configured.
TransportDispatchFails ==
    \/ \E frame \in pending, outcome \in SendOutcomes \ {"ok"} :
          /\ frame.op = "route_request"
          /\ send_to_agent_returns(frame, outcome)
    \/ /\ ret' # ret
       /\ ret'.op = "route_request"
       /\ "collaboration_result" \in DOMAIN ret'
       /\ ret'.collaboration_result = "not_configured"

\* C20: when the transport dispatch fails, route_request reports an error to its
\* caller and the HTTP route answers with an error status, not with a
\* successful routing result.
C20_DispatchFailureSurfacesAsError ==
    [][TransportDispatchFails
       => /\ ret'.status = "error"
          /\ route_collaboration_request(ret') >= 400
      ]_vars

\* C21: every routing id route_request assigns is absent from the table when it
\* is assigned, so storing the new entry never replaces an entry in flight: an
\* entry that stays in the table keeps its request, its target and the
\* responses it has collected.
C21_FreshRoutingIdNeverOverwrites ==
    [][/\ ~id_reused'
       /\ \A r \in DOMAIN active_requests \cap DOMAIN active_requests' :
             /\ active_requests'[r].request_data = active_requests[r].request_data
             /\ active_requests'[r].target_agent = active_requests[r].target_agent
             /\ Len(active_requests'[r].responses)
                   >= Len(active_requests[r].responses)
      ]_vars

\* The body an agent posts for routing id r with the given result.
ResponseBody(agent_id, result) ==
    [agent_id |-> agent_id,
     agent_type |-> ProfileOf(agent_id).agent_type,
     result |-> result]

\* C22: calls of process_collaboration_response for one routing id, one of which
\* may be suspended in its escalation's dispatch while the next runs, act one
\* after the other: the response a call appends is kept in the entry or is part
\* of the synthesis that deletes the entry (none is lost), an entry is finalized
\* only while it is in the table (at most once), and a call that finds the
\* entry deleted returns the unknown-routing-id error and changes nothing.
C22_ResponsesSerializedPerRoutingId ==
    [][\A r \in RoutingIds, new \in RoutingIds, result \in Results,
          estimated_time \in EstimatedTimes, confidence \in RouteConfidences :
          \A agent_id \in Responders(r) :
             process_collaboration_response(r, ResponseBody(agent_id, result),
                                            new, estimated_time, confidence)
             => IF r \in DOMAIN active_requests
                THEN LET all == Append(active_requests[r].responses,
                                       ResponseEntry(ResponseBody(agent_id, result)))
                     IN \/ /\ r \in DOMAIN active_requests'
                           /\ active_requests'[r].responses = all
                        \/ /\ r \notin DOMAIN active_requests'
                           /\ ret'.op = "process_collaboration_response"
                           /\ ret'.status = "completed"
                           /\ ret'.routing_id = r
                           /\ ret'.responses = all
                ELSE /\ ret' = ErrorResult("process_collaboration_response",
                                           "Unknown routing ID")
                     /\ active_requests' = active_requests
      ]_vars

\* C23: the active-collaboration table does not keep an entry for ever: an entry
\* that no response finalizes is removed by the hub itself (the background
\* sweep, once the entry is older than the request deadline plus grace), so
\* every entry is eventually destroyed.
C23_EveryEntryEventuallyDestroyed ==
    \A r \in RoutingIds :
        (r \in DOMAIN active_requests) ~> (r \notin DOMAIN active_requests)

\* Agent x, registered under client c, has not been heard of for 15 minutes or more.
SilentAgent(x, c) ==
    /\ get_agent(x, c) # <<>>
    /\ InSeq(x, client_agents[c])
    /\ time_since_seen(agents[x]) >= InactiveSeconds

\* C24: when the health sweep of client c runs on an agent X that registered and
\* sent no heartbeat for 15 minutes or more, then afterwards X's status is
\* inactive, the directory of c reports X as offline, and route_request for c
\* does not have X among the agents it selects from.
C24_SilentAgentOfflineInactiveSkipped ==
    [][\A x \in AgentIds, c \in ClientIds :
          (SilentAgent(x, c) /\ check_agent_health(c))
          => /\ agents'[x].status = "inactive"
             /\ \E i \in 1..Len(get_agent_directory(c)') :
                   /\ get_agent_directory(c)'[i].agent_id = x
                   /\ get_agent_directory(c)'[i].status = "offline"
             /\ \A requesting_agent \in RequestingAgents :
                   LET available_agents ==
                         AvailableAgents([requesting_agent |-> requesting_agent], c)'
                   IN \A i \in 1..Len(available_agents) :
                         available_agents[i].agent_id # x
      ]_vars

\* C25: a record whose status has left verified (the sweep marked it inactive)
\* stays that way under heartbeats and later sweeps; the only step after which
\* the agent id has a verified record again is a successful register_agent for
\* that agent id.
C25_InactiveUntilReregistered ==
    [][\A a \in DOMAIN agents :
          agents[a].status = "inactive"
          => \/ a \notin DOMAIN agents'
             \/ agents'[a].status = "inactive"
             \/ /\ ret'.op = "register_agent"
                /\ ret'.status = "registered"
                /\ ret'.agent_id = a
                /\ agents'[a].status = "verified"
                /\ agents'[a].registered_at = isoformat(now)
      ]_vars

\* C25 witness: a record swept to inactive has had a heartbeat accepted since,
\* and a sweep has run after that heartbeat: it is still inactive.
C25_Witness ==
    /\ ret.op = "check_agent_health"
    /\ \E a \in DOMAIN agents :
          /\ agents[a].status = "inactive"
          /\ fromisoformat(agents[a].last_seen) = now
          /\ fromisoformat(agents[a].registered_at) < now

\* No agent id occurs twice in a list of records or directory entries.
ListsEachAgentOnce(entries) ==
    \A i, j \in 1..Len(entries) :
        i # j => entries[i].agent_id # entries[j].agent_id

\* C26: within one client an agent id denotes one record: however often the agent
\* has registered under the client, get_all_agents, the directory, capability
\* discovery and each bucket of the health sweep list the agent id once.
C26_AgentListedOncePerClient ==
    \A c \in ClientIds :
        /\ ListsEachAgentOnce(get_all_agents(c))
        /\ ListsEachAgentOnce(get_agent_directory(c))
        /\ \A capability \in Capabilities :
              ListsEachAgentOnce(get_agents_by_capability(capability, c))
        /\ \A bucket \in {"healthy", "unhealthy", "inactive"} :
              \A i, j \in 1..Len(HealthBucket(c, bucket)) :
                 i # j => HealthBucket(c, bucket)[i] # HealthBucket(c, bucket)[j]

\* C27: update_agent_heartbeat(agent, client) returns true and sets last_seen to
\* the current time exactly when the agent has a record owned by that client;
\* otherwise it returns false and changes nothing; and it never changes another
\* record, another field of the record, or the client index.
C27_HeartbeatTouchesOnlyLastSeen ==
    [][\A a \in AgentIds, c \in ClientIds :
          update_agent_heartbeat(a, c)
          => /\ client_agents' = client_agents
             /\ DOMAIN agents' = DOMAIN agents
             /\ \A b \in DOMAIN agents \ {a} : agents'[b] = agents[b]
             /\ IF a \in DOMAIN agents /\ agents[a].client_id = c
                THEN /\ ret'.status = "true"
                     /\ agents'[a].last_seen = isoformat(now)
                     /\ [agents'[a] EXCEPT !.last_seen = agents[a].last_seen]
                           = agents[a]
                ELSE /\ ret'.status = "false"
                     /\ agents' = agents
      ]_vars

\* C27 witness: a heartbeat has been accepted for a record registered earlier,
\* while another client's record keeps its older last_seen.
C27_Witness ==
    /\ ret.op = "update_agent_heartbeat"
    /\ ret.status = "true"
    /\ \E a, b \in DOMAIN agents :
          /\ fromisoformat(agents[a].last_seen) = now
          /\ fromisoformat(agents[a].registered_at) < now
          /\ agents[b].client_id # agents[a].client_id
          /\ fromisoformat(agents[b].last_seen) < now

\* How many times the sweep of client c lists agent a in the given bucket.
TimesInBucket(a, c, bucket) ==
    Len(SelectSeq(HealthBucket(c, bucket), LAMBDA agent_id : agent_id = a))

\* C28: a sweep of client c lists each agent of c once, in the bucket of its
\* last_seen age (healthy under 5 minutes, unhealthy from 5 to under 15,
\* inactive from 15 on), sets status inactive for the agents of the inactive
\* bucket and for no other, and leaves the records of other clients untouched.
C28_SweepBucketsOwnAgentsByAge ==
    [][\A c \in ClientIds :
          check_agent_health(c)
          => \A a \in DOMAIN agents :
                IF agents[a].client_id = c
                THEN LET age == now - fromisoformat(agents[a].last_seen)
                         bucket == IF age < HealthySeconds THEN "healthy"
                                   ELSE IF age < InactiveSeconds THEN "unhealthy"
                                   ELSE "inactive"
                     IN /\ TimesInBucket(a, c, bucket) = 1
                        /\ \A other \in {"healthy", "unhealthy", "inactive"} \ {bucket} :
                              TimesInBucket(a, c, other) = 0
                        /\ agents'[a] = IF bucket = "inactive"
                                        THEN [agents[a] EXCEPT !.status = "inactive"]
                                        ELSE agents[a]
                ELSE agents'[a] = agents[a]
      ]_vars

(***************************************************************************)
(* C29: the document lookup returns a document to client C only if the     *)
(* document's owning client is C: a lookup of an existing document by any  *)
(* other client is refused with 403 and returns no document, a lookup of   *)
(* an unknown id answers 404, and a search for C returns only documents    *)
(* of the catalog that C owns.                                             *)
(***************************************************************************)
C29_DocumentsReturnedOnlyToOwner ==
    [][/\ \A d \in DocumentIds, c \in ClientIds :
            routes_get_document(d, c) =>
                /\ d \notin DOMAIN documents_db =>
                      ret'.status_code = 404 /\ ret'.document = <<>>
                /\ (d \in DOMAIN documents_db /\ documents_db[d].client_id # c) =>
                      ret'.status_code = 403 /\ ret'.document = <<>>
                /\ ret'.document # <<>> =>
                      /\ ret'.document[1].client_id = c
                      /\ ret'.document[1] = documents_db[d]
       /\ \A department \in {None, "Finance"}, document_type \in {None, "Report"},
             date_from \in DateFilters, date_to \in DateFilters, c \in ClientIds :
            routes_search_documents(department, document_type, date_from, date_to, c) =>
                \A doc \in ret'.documents :
                    /\ doc.client_id = c
                    /\ doc \in {documents_db[d] : d \in DOMAIN documents_db}]_vars

\* Another client has asked for an existing document and was refused.
C29_Witness ==
    /\ ret.op = "get_document"
    /\ ret.status_code = 403
    /\ ret.document = <<>>
    /\ ret.document_id \in DOMAIN documents_db
    /\ documents_db[ret.document_id].client_id # ret.client_id
    /\ \E d \in DOMAIN documents_db : documents_db[d].client_id = ret.client_id

(***************************************************************************)
(* C30: in every reachable catalog state each record of the catalog has    *)
(* status completed together with a categorization, and an intake that     *)
(* fails at storing, text extraction or categorization returns failed and  *)
(* leaves no record: the catalog is as it was, and never gains a completed *)
(* record without categorization.                                          *)
(***************************************************************************)
Categorized(doc) ==
    /\ doc.status = "completed"
    /\ {"department", "document_type"} \subseteq DOMAIN doc.categorization
    /\ doc.categorization.department \in {"Finance", "Marketing", "Sales", "Operations"}

C30_QueryableRecordsAreCategorized ==
    [][/\ \A d \in DOMAIN documents_db' : Categorized(documents_db'[d])
       /\ (ret'.op = "process_upload" /\ ret'.status = "failed") =>
             documents_db' = documents_db
       /\ (ret'.op = "process_upload" /\ ret'.status = "completed") =>
             /\ ret'.document_id \in DOMAIN documents_db'
             /\ documents_db'[ret'.document_id].categorization = ret'.categorization]_vars

\* An intake has failed at text extraction while the catalog holds a record.
C30_Witness ==
    /\ ret.op = "process_upload"
    /\ ret.status = "failed"
    /\ ret.error = "Failed to extract text content from document"
    /\ documents_db # <<>>
    /\ \A d \in DOMAIN documents_db : Categorized(documents_db[d])

(***************************************************************************)
(* C31: when handle_collaboration_request receives an envelope that fails  *)
(* verification, or a verified message whose kind has no registered        *)
(* handler, no handler is invoked and the caller is returned (never        *)
(* raised at) an envelope of kind error that is signed with the receiver's *)
(* own key and verifies under it.                                          *)
(***************************************************************************)
SignedByReceiver(e) ==
    /\ e.sender_public_key = get_public_key_pem(Receiver.key)
    /\ ~e.encrypted
    /\ verify_signature(json_dumps(e.message[1]), e.signature,
                        get_public_key_pem(Receiver.key))

C31_RejectedRequestGetsSignedError ==
    [][\A secure_message \in Submittable, nonce \in ResponseNonces,
          outcome \in HandlerOutcomes :
          (/\ handle_collaboration_request(secure_message, nonce, outcome)
           /\ \/ ~VerifyOutcome(secure_message).ok
              \/ VerifyOutcome(secure_message).message[1].message_type
                     \notin collaboration_handlers)
          => /\ handler_calls' = handler_calls
             /\ ret'.status = "returned"
             /\ ret'.response.message[1].message_type = "error"
             /\ SignedByReceiver(ret'.response)
             /\ VerifyOutcome(ret'.response).ok]_vars

\* A handler is registered, and a request of a kind without one has been answered
\* with an error envelope while no handler ran.
C31_Witness ==
    /\ ret.op = "handle_collaboration_request"
    /\ collaboration_handlers # {}
    /\ handler_calls = <<>>
    /\ ret.response.message[1].message_type = "error"
    /\ ret.response.message[1].payload.error =
          "No handler for message type: status_query"
    /\ SignedByReceiver(ret.response)

(***************************************************************************)
(* C32: the router policy is deterministic: a call of route_to_agent that  *)
(* follows a call with the same query and the same list of verified agents *)
(* returns the same output (selected kind, reasoning, priority, estimated  *)
(* minutes, confidence).                                                   *)
(***************************************************************************)
SameRouterInputs ==
    /\ ret.op = "route_to_agent"
    /\ ret'.op = "route_to_agent"
    /\ ret'.query = ret.query
    /\ ret'.available_agents = ret.available_agents

C32_RouterDeterministic ==
    [][SameRouterInputs => ret'.output = ret.output]_vars

(***************************************************************************)
(* C33: broadcast_to_all_agents sends to all configured peers in parallel: *)
(* while it awaits a reply, the send of every peer that has no result yet  *)
(* is in flight; it returns exactly one result per configured peer; and a  *)
(* peer's reply, a failure or timeout included, leaves the results         *)
(* collected from the other peers as they were.                            *)
(***************************************************************************)
Peers(tasks) == {tasks[i] : i \in 1..Len(tasks)}

AllSendsInFlight ==
    broadcast.awaiting > 0 =>
        broadcast.in_flight \cup DOMAIN broadcast.results = Peers(broadcast.tasks)

OneResultPerPeer ==
    (broadcast.awaiting > 0 /\ broadcast' = NoBroadcast) =>
        /\ ret'.op = "broadcast_to_all_agents"
        /\ DOMAIN ret'.results = Peers(broadcast.tasks)
        /\ \A p \in DOMAIN broadcast.results : ret'.results[p] = broadcast.results[p]

OtherResultsKept ==
    (broadcast.awaiting > 0 /\ broadcast'.awaiting > 0) =>
        \A p \in DOMAIN broadcast.results :
            /\ p \in DOMAIN broadcast'.results
            /\ broadcast'.results[p] = broadcast.results[p]

C33_BroadcastInParallel ==
    [][AllSendsInFlight' /\ OneResultPerPeer /\ OtherResultsKept]_vars

(***************************************************************************)
(* C34: heartbeats are idempotent: after N consecutive accepted            *)
(* update_agent_heartbeat calls for one agent the registry is what a       *)
(* single call at the time of the last one makes of the registry as it was *)
(* before the first: last_seen is the time of the last call, every other   *)
(* field, every other record and the client index are unchanged.           *)
(***************************************************************************)
C34_HeartbeatsIdempotent ==
    hb_run.n > 0 =>
        /\ agents = [hb_run.agents EXCEPT
                        ![hb_run.agent_id].last_seen = isoformat(hb_run.at)]
        /\ client_agents = hb_run.client_agents

\* Three or more heartbeats in a row, the last one later than the first.
C34_Witness ==
    /\ hb_run.n = 3
    /\ ret.op = "update_agent_heartbeat"
    /\ ret.status = "true"
    /\ hb_run.at = now
    /\ fromisoformat(hb_run.agents[hb_run.agent_id].last_seen) < now
    /\ fromisoformat(agents[hb_run.agent_id].last_seen) = now

(***************************************************************************)
(* C35: after appending a response that carries a result object,           *)
(* process_collaboration_response escalates (dispatches the request again) *)
(* exactly when the confidence_score is below 0.7, fewer than 2 responses  *)
(* have been collected and a verified agent of the client that has not     *)
(* responded exists; in every other case it finalizes: the entry is        *)
(* deleted and the call returns status completed for that routing id.      *)
(***************************************************************************)
\* A step of process_collaboration_response(routing_id, response_data) whose
\* escalation, if any, draws new_routing_id.
ProcessedBy(routing_id, response_data, new_routing_id) ==
    \E estimated_time \in EstimatedTimes, confidence \in RouteConfidences :
        process_collaboration_response(routing_id, response_data, new_routing_id,
                                       estimated_time, confidence)

ResponseOf(agent_id, result) ==
    [agent_id |-> agent_id,
     agent_type |-> ProfileOf(agent_id).agent_type,
     result |-> result]

VerifiedUnanswered(routing_id, response_data) ==
    {agent_id \in DOMAIN agents :
        /\ InSeq(agent_id, client_agents[active_requests[routing_id].client_id])
        /\ agents[agent_id].status = "verified"
        /\ agent_id # response_data.agent_id
        /\ \A i \in 1..Len(active_requests[routing_id].responses) :
              active_requests[routing_id].responses[i].agent_id # agent_id}

ShouldEscalate(routing_id, response_data) ==
    /\ response_data.result.confidence_score < ConfidenceThreshold
    /\ Len(active_requests[routing_id].responses) + 1 < 2
    /\ VerifiedUnanswered(routing_id, response_data) # {}

Escalated ==
    \/ pending' # pending
    \/ /\ ret'.op = "process_collaboration_response"
       /\ ret'.status = "routed"

Finalized(routing_id) ==
    /\ routing_id \notin DOMAIN active_requests'
    /\ pending' = pending
    /\ ret'.op = "process_collaboration_response"
    /\ ret'.status = "completed"
    /\ ret'.routing_id = routing_id

C35_EscalatesExactlyWhenNeeded ==
    [][\A routing_id \in DOMAIN active_requests, result \in HealthResults,
          new_routing_id \in RoutingIds :
          \A agent_id \in Responders(routing_id) :
              ProcessedBy(routing_id, ResponseOf(agent_id, result), new_routing_id)
              => IF ShouldEscalate(routing_id, ResponseOf(agent_id, result))
                 THEN Escalated
                 ELSE Finalized(routing_id)]_vars

(***************************************************************************)
(* C36: an escalation re-dispatches under the original routing id and      *)
(* creates no entry: processing a response never increases the number of   *)
(* entries of the active table, and the routing id sent to the next agent  *)
(* is the id of the entry that holds the response just processed.          *)
(***************************************************************************)
C36_EscalationKeepsRoutingId ==
    [][\A routing_id \in DOMAIN active_requests, result \in Results,
          new_routing_id \in RoutingIds :
          \A agent_id \in Responders(routing_id) :
              ProcessedBy(routing_id, ResponseOf(agent_id, result), new_routing_id)
              => /\ Cardinality(DOMAIN active_requests')
                       <= Cardinality(DOMAIN active_requests)
                 /\ \A frame \in pending' \ pending :
                       /\ frame.routing_id = routing_id
                       /\ routing_id \in DOMAIN active_requests'
                       /\ active_requests'[routing_id].responses # <<>>
                 /\ (ret'.op = "process_collaboration_response"
                        /\ ret'.status = "routed")
                    => /\ ret'.routing_id = routing_id
                       /\ routing_id \in DOMAIN active_requests'
                       /\ active_requests'[routing_id].responses # <<>>]_vars

(***************************************************************************)
(* C37: process_collaboration_response acts only on collaborations of the  *)
(* calling client: a response posted under a client other than the owner   *)
(* of the routing id's entry is rejected and leaves that entry, its        *)
(* responses and its presence in the table, unchanged.                     *)
(***************************************************************************)
PostedBy(routing_id, response_data, x_client_id, new_routing_id) ==
    \E estimated_time \in EstimatedTimes, confidence \in RouteConfidences :
        routes_process_collaboration_response(routing_id, response_data, x_client_id,
                                              new_routing_id, estimated_time,
                                              confidence)

C37_ResponsesOnlyFromOwningClient ==
    [][\A routing_id \in DOMAIN active_requests, result \in HealthResults,
          x_client_id \in ClientIds, new_routing_id \in RoutingIds :
          \A agent_id \in Responders(routing_id) :
              /\ x_client_id # active_requests[routing_id].client_id
              /\ PostedBy(routing_id, ResponseOf(agent_id, result), x_client_id,
                          new_routing_id)
              => /\ ret'.status = "error"
                 /\ routing_id \in DOMAIN active_requests'
                 /\ active_requests'[routing_id] = active_requests[routing_id]]_vars

(***************************************************************************)
(* C38: an agent that calls register_with_hub with a quote the hub's       *)
(* verifier accepts is admitted: the hub answers its request with 201,     *)
(* the registry then holds a verified record for the agent, and            *)
(* register_with_hub returns true.                                         *)
(***************************************************************************)
C38_AgentWithGoodQuoteIsAdmitted ==
    [][\A agent_id \in AgentIds :
          /\ ~base_agent[agent_id].is_running
          /\ base_agent'[agent_id].is_running
          /\ communication'[agent_id].quote = "quote-ok"
          => /\ HttpStatus(ret') = 201
             /\ agent_id \in DOMAIN agents'
             /\ agents'[agent_id].status = "verified"
             /\ communication'[agent_id].registered]_vars

(***************************************************************************)
(* C39: while an admitted agent runs its heartbeat loop and the hub is     *)
(* reachable, every heartbeat it sends is accepted by the hub and          *)
(* refreshes its last_seen, so that at no time a health sweep finds the    *)
(* agent unhealthy or inactive.                                            *)
(***************************************************************************)
Admitted(agent_id) ==
    /\ agent_id \in DOMAIN agents
    /\ agents[agent_id].status = "verified"

\* The loop of the agent has been running since the hub last heard of it.
InLoopSinceAdmission(agent_id) ==
    /\ Admitted(agent_id)
    /\ base_agent[agent_id].is_running
    /\ base_agent[agent_id].started_at <= fromisoformat(agents[agent_id].registered_at)

HeartbeatSentBy(agent_id) ==
    /\ base_agent[agent_id].is_running
    /\ ~heartbeat_loop[agent_id].sent
    /\ heartbeat_loop'[agent_id].sent

C39_LoopKeepsAgentHealthy ==
    /\ [][\A agent_id \in AgentIds :
             Admitted(agent_id) /\ HeartbeatSentBy(agent_id)
             => /\ heartbeat_loop'[agent_id].status_code = 200
                /\ agents'[agent_id].last_seen = isoformat(now)]_vars
    /\ [](\A agent_id \in AgentIds :
             InLoopSinceAdmission(agent_id) => Bucket(agents[agent_id]) = "healthy")

(***************************************************************************)
(* C40: route_request never dispatches to an agent whose last_seen is 15   *)
(* minutes or more old, whether or not a health sweep has run since the    *)
(* agent was last heard of.                                                *)
(***************************************************************************)
\* The routing ids under which the step stores the entry of a new dispatch.
DispatchedIn ==
    {r \in DOMAIN active_requests' :
        /\ active_requests'[r].responses = <<>>
        /\ r \in DOMAIN active_requests => active_requests'[r] # active_requests[r]}

C40_NoDispatchToStaleAgent ==
    [][\A r \in DispatchedIn :
          time_since_seen(agents[active_requests'[r].target_agent.agent_id])
              < InactiveSeconds]_vars

====
